---- MODULE Spec2Model ----
(***************************************************************************)
(* Model of the fee-distribution swap engine of meteora-invent:            *)
(*   utils/solana.js                 parsePrivateKey, retry, transferSol   *)
(*   utils/jupiter-custom-tx-silent  JupiterCustomTxBuilderSilent          *)
(*   utils/jupiter.js                JupiterPaymentsAsSwap (two revisions) *)
(*   utils/jupiter-simple.js         JupiterSimpleSwap                     *)
(*   swap-fee-to-asset*.js           the command-line entry points         *)
(* Amounts are lamports; a SOL amount on the command line is held in       *)
(* tenths of a lamport so that Math.floor(solAmount * 1e9) can round.      *)
(***************************************************************************)
EXTENDS Integers, Sequences, FiniteSets, TLC

VARIABLES
    script,      \* entry point that was started
    variant,     \* pipeline implementation the entry point drives
    args,        \* the caller's arguments
    pc,          \* position of the single thread of control
    funderBal,   \* lamports on the Funder's (fee wallet's) account
    initialBal,  \* balance the entry script read before validating
    solAmount,   \* amount handed to the pipeline, in tenths of a lamport
    attempt,     \* retry(): loop index i
    sleeps,      \* retry(): delays slept so far, in ms
    parses,      \* number of parsePrivateKey calls made by the pipeline
    tier,        \* executeSwapWithCustomPayer: 0 = top-level call, k = k-th fallback limit
    quoteReqs,   \* quote requests issued to the aggregator, in order
    swapReqs,    \* swap-instructions / swap requests issued, in order
    quote,       \* quote held by the running attempt
    instructions,\* aggregator's instruction response held by the running attempt
    tx,          \* transaction built / deserialized by the running attempt
    sent,        \* transactions handed to sendRawTransaction, with their fate
    balanceReads,\* getBalance calls made by the pipeline after a submission
    lastError,   \* error most recently thrown inside the pipeline
    origErr,     \* executeSwapWithCustomPayer: error caught by the top-level call
    result,      \* what the pipeline returned or threw
    built,       \* buildCustomTransaction applied to a drawn response (SpecAssemble)
    quoteResp,   \* HTTP response getQuote is applied to (SpecQuote)
    got,         \* what getQuote returned or threw (SpecQuote)
    response,    \* JSON response the entry script prints before it exits
    ledgerTables,\* lookup-table addresses that resolve to an account on the ledger
    blockhashFetches, \* getLatestBlockhash calls answered so far
    frames,      \* local variables of each of two concurrent calls (SpecConcurrent)
    call         \* arguments and outcome of a utility function applied on its own

vars == <<script, variant, args, pc, funderBal, initialBal, solAmount, attempt, sleeps,
          parses, tier, quoteReqs, swapReqs, quote, instructions, tx, sent,
          balanceReads, lastError, origErr, result, built, quoteResp, got,
          response, ledgerTables, blockhashFetches, frames,
          call>>

(***************************************************************************)
(* Bounds of the model.                                                    *)
(***************************************************************************)
MaxRetriesArg == 3      \* largest maxRetries a direct caller passes
MaxSetup == 2           \* longest setupInstructions / computeBudgetInstructions list
FeeTolerance == 10000   \* lamports of network fees a balance delta may be off by

Null == "null"

(***************************************************************************)
(* Program constants.                                                      *)
(***************************************************************************)
DefaultMaxRetries == 3
BaseDelay == 1000
RENT_EXEMPTION_LAMPORTS == 890000
MIN_AUTO_LAMPORTS == 1000000
fallbackLimitsLoosening == <<25, 30, 40>>
fallbackLimits == <<40, 30, 25>>

(***************************************************************************)
(* Credentials and keys.  A credential string has an encoding and, when it *)
(* decodes, the key it holds.  bs58.decode + Keypair.fromSecretKey accept  *)
(* only a base58 string of a 64-byte secret key.                           *)
(***************************************************************************)
Keys == {"K1", "K2"}
Invalid == "invalid"

Cred(enc, key, len) == [enc |-> enc, key |-> key, len |-> len]

parsePrivateKey(c) ==
    IF c.enc = "base58" /\ c.len = 64 THEN c.key ELSE Invalid

FeeCreds == {Cred("base58", "K1", 64), Cred("garbage", "K1", 5)}
PlatformCreds == {Cred("base58", "K2", 64), Cred("base58", "K1", 64),
                  Cred("json", "K2", 64)}

(***************************************************************************)
(* Errors.  kind "size" stands for a message containing 'too large', the   *)
(* only classification the code makes; at/tier/attempt identify the throw. *)
(***************************************************************************)
Err(kind, at) == [kind |-> kind, at |-> at, tier |-> tier, attempt |-> attempt,
                  cause |-> "none"]
NoErr == [kind |-> "none", at |-> "none", tier |-> 0, attempt |-> 0, cause |-> "none"]
ErrKinds == {"size", "other"}

isTooLarge(e) == e.kind = "size"

NoAmount == [t |-> "undefined", v |-> 0]
NoResult == [status |-> "none", error |-> NoErr, inAmount |-> NoAmount,
             outAmount |-> NoAmount, tier |-> 0, attempt |-> 0]
Success(q) == [status |-> "success", error |-> NoErr, inAmount |-> q.inAmount,
               outAmount |-> q.outAmount, tier |-> tier, attempt |-> attempt]
Failure(e) == [status |-> "error", error |-> e, inAmount |-> NoAmount,
               outAmount |-> NoAmount, tier |-> tier, attempt |-> attempt]

(***************************************************************************)
(* Math.floor(solAmount * 1e9), solAmount held in tenths of a lamport.     *)
(* solAmount is an IEEE-754 double: the double nearest to 0.00207 times    *)
(* 1e9 is 2069999.9999999998 and the one nearest to 0.00208 gives          *)
(* 2079999.9999999998, so the floor is one lamport short of the decimal    *)
(* product; 0.002, 0.0020000005 and 0.003 give the exact floor.            *)
(***************************************************************************)
ShortProducts == {20700000, 20800000}

toLamports(a) == IF a \in ShortProducts THEN a \div 10 - 1 ELSE a \div 10

(***************************************************************************)
(* JSON values of the aggregator's quote.  The aggregator sends amounts as *)
(* decimal strings; a field may also be missing or a number.              *)
(***************************************************************************)
JsUndefined == [t |-> "undefined", v |-> 0]
JsString(n) == [t |-> "string", v |-> n]
JsNumber(n) == [t |-> "number", v |-> n]
JsNaN == [t |-> "NaN", v |-> 0]

\* !x is false: a non-empty string (even "0") and a non-zero number are truthy;
\* undefined and NaN are not
truthy(x) ==
    CASE x.t = "undefined" -> FALSE
      [] x.t = "NaN" -> FALSE
      [] x.t = "string" -> TRUE
      [] x.t = "number" -> x.v # 0

NoQuote == [inAmount |-> JsUndefined, outAmount |-> JsUndefined, maxAccounts |-> 0,
            id |-> 0]
NoTx == [feePayer |-> Null, signatures |-> {}, required |-> {}, kind |-> Null,
         instructions |-> <<>>, tables |-> <<>>, blockhash |-> 0, calls |-> <<>>,
         signers |-> <<>>]

(***************************************************************************)
(* Aggregator instruction responses and buildCustomTransaction.            *)
(* An instruction is identified by id; the aggregator sends it in JSON     *)
(* form and deserializeInstruction turns it into the ledger's native form. *)
(***************************************************************************)
Json(i) == [id |-> i, form |-> "json"]
Absent == [defined |-> FALSE, items |-> <<>>]
Given(s) == [defined |-> TRUE, items |-> s]

deserializeInstruction(i) == [id |-> i.id, form |-> "native"]

MapSeq(f(_), s) == [k \in 1..Len(s) |-> f(s[k])]

txInstructionsCleanupFirst(r) ==
    LET items(f) == IF f.defined THEN MapSeq(deserializeInstruction, f.items) ELSE <<>>
    IN  items(r.computeBudgetInstructions) \o items(r.setupInstructions)
        \o items(r.tokenLedgerInstruction) \o items(r.cleanupInstruction)
        \o items(r.swapInstruction)

\* lines 215-239: the pushes onto txInstructions, in program order
txInstructions(r) ==
    LET cb == IF r.computeBudgetInstructions.defined
                 /\ Len(r.computeBudgetInstructions.items) > 0
              THEN MapSeq(deserializeInstruction, r.computeBudgetInstructions.items)
              ELSE <<>>
        su == IF r.setupInstructions.defined /\ Len(r.setupInstructions.items) > 0
              THEN MapSeq(deserializeInstruction, r.setupInstructions.items)
              ELSE <<>>
        tl == IF r.tokenLedgerInstruction.defined
              THEN MapSeq(deserializeInstruction, r.tokenLedgerInstruction.items)
              ELSE <<>>
        sw == MapSeq(deserializeInstruction, r.swapInstruction.items)
        cl == IF r.cleanupInstruction.defined
              THEN MapSeq(deserializeInstruction, r.cleanupInstruction.items)
              ELSE <<>>
    IN  cb \o su \o tl \o sw \o cl

\* deserializeInstruction(undefined) reads .programId of undefined: a TypeError
buildThrows(r) == ~r.swapInstruction.defined

\* addresses of lookup tables a route may reference
Tables == {61, 62}

\* the connection a build talks to: the tables that resolve and the blockhash
\* its next getLatestBlockhash returns
Connection(tables, blockhash) == [tables |-> tables, blockhash |-> blockhash]

\* lines 264-283: [] without keys; else the accounts that getMultipleAccountsInfo
\* found, an address without account being skipped
getAddressLookupTableAccounts(keys, connection) ==
    IF ~keys.defined \/ Len(keys.items) = 0 THEN <<>>
    ELSE SelectSeq(keys.items, LAMBDA k : k \in connection.tables)

buildCallsBlockhashFirst(r) ==
    <<"getLatestBlockhash">>
    \o (IF r.addressLookupTableAddresses.defined
           /\ Len(r.addressLookupTableAddresses.items) > 0
        THEN <<"getMultipleAccountsInfo">> ELSE <<>>)
    \o <<"sign">>

\* the network calls of buildCustomTransaction and its signing, in program
\* order: lines 210 (with 265-271), 242, 256
buildCalls(r) ==
    (IF r.addressLookupTableAddresses.defined
        /\ Len(r.addressLookupTableAddresses.items) > 0
     THEN <<"getMultipleAccountsInfo">> ELSE <<>>)
    \o <<"getLatestBlockhash", "sign">>

\* lines 241-258: payerKey, compileToV0Message, sign([platformWallet, feeWallet])
buildCustomTransaction(r, feeWallet, platformWallet, connection) ==
    [feePayer |-> platformWallet,
     required |-> {platformWallet, feeWallet},
     signatures |-> {platformWallet, feeWallet},
     signers |-> <<platformWallet, feeWallet>>,
     kind |-> "versioned",
     instructions |-> txInstructions(r),
     tables |-> getAddressLookupTableAccounts(r.addressLookupTableAddresses, connection),
     blockhash |-> connection.blockhash,
     calls |-> buildCalls(r)]

IdSeqs(base) == {[k \in 1..n |-> base + k] : n \in 0..MaxSetup}

OptList(base) == {Absent} \cup {Given(MapSeq(Json, s)) : s \in IdSeqs(base)}
OptOne(i) == {Absent, Given(<<Json(i)>>)}

OptTables == {Absent, Given(<<>>), Given(<<61>>), Given(<<61, 62>>)}

Responses ==
    [addressLookupTableAddresses : OptTables,
     computeBudgetInstructions : OptList(10),
     setupInstructions : OptList(20),
     tokenLedgerInstruction : OptOne(30),
     swapInstruction : OptOne(40),
     cleanupInstruction : OptOne(50)]

NoInstructions ==
    [addressLookupTableAddresses |-> Absent,
     computeBudgetInstructions |-> Absent, setupInstructions |-> Absent,
     tokenLedgerInstruction |-> Absent, swapInstruction |-> Absent,
     cleanupInstruction |-> Absent]

\* responses the pipeline specifications draw from: a full route, a bare one,
\* and one without swapInstruction
PipelineResponses ==
    {[addressLookupTableAddresses |-> Given(<<61>>),
      computeBudgetInstructions |-> Given(<<Json(11)>>),
      setupInstructions |-> Given(<<Json(21)>>),
      tokenLedgerInstruction |-> Absent,
      swapInstruction |-> Given(<<Json(40)>>),
      cleanupInstruction |-> Given(<<Json(50)>>)],
     [addressLookupTableAddresses |-> Given(<<61, 62>>),
      computeBudgetInstructions |-> Absent,
      setupInstructions |-> Given(<<>>),
      tokenLedgerInstruction |-> Absent,
      swapInstruction |-> Given(<<Json(40)>>),
      cleanupInstruction |-> Absent],
     NoInstructions}

NoBuilt == [status |-> "none", tx |-> NoTx]

\* utils/response.js: the printed object, by its keys and the values of interest
NoResponse ==
    [success |-> "none", keys |-> {}, error |-> NoErr, inputAmount |-> NoAmount,
     outputAmount |-> NoAmount, feeWalletSpent |-> 0]

createSuccessResponse(data) ==
    [data EXCEPT !.success = "true", !.keys = {"success", "timestamp"} \cup data.keys]

\* createErrorResponse(error, {stack, name}) as executeWithErrorHandling calls it
createErrorResponse(e) ==
    [NoResponse EXCEPT !.success = "false", !.error = e,
                       !.keys = {"success", "error", "timestamp", "stack", "name"}]

NoQuoteResp == [ok |-> FALSE, body |-> NoQuote]
NoGot == [status |-> "none", quote |-> NoQuote, error |-> "none"]

(***************************************************************************)
(* Initial states: an entry point, its arguments, the Funder's balance.    *)
(***************************************************************************)
Scripts == {"lib", "silent", "auto", "fixed"}
Variants == {"custom", "payV1", "payV2", "simple"}

VariantsOf(s) ==
    CASE s = "lib" -> Variants
      [] s = "silent" -> {"custom"}
      [] OTHER -> {"payV1", "payV2"}

\* command-line amounts, in tenths of a lamport (0.002 SOL and 0.0020000005 SOL)
SolAmounts == {20000000, 20000005}
Balances == {0, 1889999, 1890000, 5000000}
BalancesOf(s) == IF s = "auto" THEN Balances ELSE {1889999, 5000000}

AssetVaults == {"V1"}

\* maxAccounts as a caller of executeSwapWithCustomPayer may pass it: left out
\* (null, 0 here) or a limit of its own; the entry script passes none
CallerLimits == {0, 40}

ArgsOf(s, v) ==
    [feeWalletKey : FeeCreds,
     assetVaultPubkey : AssetVaults,
     platformWalletKey : PlatformCreds,
     auto : IF s = "auto" THEN BOOLEAN ELSE {FALSE},
     solAmount : IF s = "silent" THEN {20000000} ELSE SolAmounts,
     maxRetries : IF s = "lib" /\ v # "custom" THEN 0..MaxRetriesArg
                  ELSE {DefaultMaxRetries},
     maxAccounts : IF s = "lib" /\ v = "custom" THEN CallerLimits ELSE {0}]

EntryPc(s, v) ==
    CASE s # "lib" -> "main"
      [] v = "custom" -> "c_parse"
      [] OTHER -> "p_parse"

Init ==
    /\ script \in Scripts
    /\ variant \in VariantsOf(script)
    /\ args \in ArgsOf(script, variant)
    /\ funderBal \in BalancesOf(script)
    /\ pc = EntryPc(script, variant)
    /\ initialBal = 0
    /\ solAmount = IF script = "lib" THEN args.solAmount ELSE 0
    /\ attempt = 0
    /\ sleeps = <<>>
    /\ parses = 0
    /\ tier = 0
    /\ quoteReqs = <<>>
    /\ swapReqs = <<>>
    /\ quote = NoQuote
    /\ instructions = NoInstructions
    /\ tx = NoTx
    /\ sent = <<>>
    /\ balanceReads = 0
    /\ lastError = NoErr
    /\ origErr = NoErr
    /\ result = NoResult
    /\ built = NoBuilt
    /\ quoteResp = NoQuoteResp
    /\ got = NoGot
    /\ response = NoResponse
    /\ ledgerTables = Tables
    /\ blockhashFetches = 0
    /\ frames = <<>>
    /\ call = <<>>

feeWallet == parsePrivateKey(args.feeWalletKey)
platformWallet == parsePrivateKey(args.platformWalletKey)

FinishNotTerminal(r) == pc' = pc /\ result' = r

\* the pipeline returns r (or throws r.error) to its caller
Finish(r) == pc' = "done" /\ result' = r

auxVars == <<built, quoteResp, got, response, frames, call>>

ledgerVars == <<ledgerTables, blockhashFetches>>

pipeVars == <<attempt, sleeps, parses, tier, quoteReqs, swapReqs, quote, instructions,
              tx, sent, balanceReads, lastError, origErr>>

(***************************************************************************)
(* Entry scripts, up to the call of the pipeline.                          *)
(***************************************************************************)
\* swap-fee-to-asset-silent.js main, lines 14-61
SilentMain ==
    /\ pc = "main" /\ script = "silent"
    /\ initialBal' = funderBal
    /\ \E platformLow \in BOOLEAN :
        IF feeWallet = Invalid \/ platformWallet = Invalid
        THEN Finish(Failure(Err("other", "main_parse"))) /\ solAmount' = solAmount
        ELSE IF funderBal * 10 < args.solAmount
        THEN Finish(Failure(Err("other", "insufficient"))) /\ solAmount' = solAmount
        ELSE IF platformLow
        THEN Finish(Failure(Err("other", "platform_low"))) /\ solAmount' = solAmount
        ELSE /\ solAmount' = args.solAmount
             /\ pc' = "c_parse"
             /\ result' = result
    /\ UNCHANGED <<script, variant, args, funderBal, pipeVars, auxVars, ledgerVars>>

autoAmount(bal) ==
    IF bal - RENT_EXEMPTION_LAMPORTS > 0 THEN bal - RENT_EXEMPTION_LAMPORTS ELSE 0

\* swap-fee-to-asset.js main with AUTO mode, lines 21-100
AutoMain ==
    /\ pc = "main" /\ script = "auto"
    /\ IF feeWallet = Invalid
       THEN /\ Finish(Failure(Err("other", "main_parse")))
            /\ UNCHANGED <<solAmount, initialBal>>
       ELSE /\ initialBal' = funderBal
            /\ IF args.auto /\ autoAmount(funderBal) < MIN_AUTO_LAMPORTS
               THEN Finish(Failure(Err("other", "insufficient"))) /\ solAmount' = solAmount
               ELSE IF platformWallet = Invalid
               THEN Finish(Failure(Err("other", "validate"))) /\ solAmount' = solAmount
               ELSE /\ solAmount' = IF args.auto THEN autoAmount(funderBal) * 10
                                    ELSE args.solAmount
                    /\ pc' = "p_parse"
                    /\ result' = result
    /\ UNCHANGED <<script, variant, args, funderBal, pipeVars, auxVars, ledgerVars>>

\* swap-fee-to-asset.js main without AUTO mode, lines 151-209 and 259-315
FixedMain ==
    /\ pc = "main" /\ script = "fixed"
    /\ IF feeWallet = Invalid \/ platformWallet = Invalid
       THEN /\ Finish(Failure(Err("other", "validate")))
            /\ UNCHANGED <<solAmount, initialBal>>
       ELSE /\ initialBal' = funderBal
            /\ solAmount' = args.solAmount
            /\ pc' = "p_parse"
            /\ result' = result
    /\ UNCHANGED <<script, variant, args, funderBal, pipeVars, auxVars, ledgerVars>>

(***************************************************************************)
(* JupiterCustomTxBuilderSilent.executeSwapWithCustomPayer.  tier = 0 is   *)
(* the caller's call (maxAccounts = null unless the caller passes one);    *)
(* tier = k > 0 is the recursive call of the fallback loop with            *)
(* maxAccounts = fallbackLimits[k].                                        *)
(***************************************************************************)
maxAccountsFromFirstCall == IF tier = 0 THEN fallbackLimits[1] ELSE fallbackLimits[tier]

maxAccounts == IF tier = 0 THEN args.maxAccounts ELSE fallbackLimits[tier]

exhaustedErrorGeneric(e) ==
    [kind |-> "other", at |-> "exhausted", tier |-> e.tier, attempt |-> e.attempt,
     cause |-> e.at]

\* line 120: new Error(`Transaction too large even with account limits. Original error: ...`)
exhaustedError(e) ==
    [kind |-> "size", at |-> "exhausted", tier |-> e.tier, attempt |-> e.attempt,
     cause |-> e.at]

\* next fallback limit to try after a size error at the current tier
nextTier == tier + 1

fallbackContinuesAlways(e) == e.kind \in ErrKinds

\* lines 109-116: does the fallback loop go on after the nested call threw e
fallbackContinues(e) == isTooLarge(e)

startsFallbackWithLimit(e, inTry) == inTry /\ isTooLarge(e)

\* line 94, reached from the try of lines 77-91 only:
\* error.message.includes('too large') && !maxAccounts
startsFallback(e, inTry) == inTry /\ isTooLarge(e) /\ maxAccounts = 0

\* An error e leaves the running call.  inTry: thrown inside the try of lines 77-91.
CustomThrow(e, inTry) ==
    /\ lastError' = e
    /\ IF tier = 0
       THEN IF startsFallback(e, inTry)
            THEN /\ origErr' = e
                 /\ tier' = 1
                 /\ pc' = "c_parse"
                 /\ result' = result
            ELSE /\ Finish(Failure(e))
                 /\ UNCHANGED <<origErr, tier>>
       ELSE IF fallbackContinues(e)
            THEN IF tier < Len(fallbackLimits)
                 THEN /\ tier' = nextTier
                      /\ pc' = "c_parse"
                      /\ UNCHANGED <<origErr, result>>
                 ELSE /\ Finish(Failure(exhaustedError(origErr)))
                      /\ UNCHANGED <<origErr, tier>>
            ELSE /\ Finish(Failure(e))
                 /\ UNCHANGED <<origErr, tier>>

\* lines 35-36
CustomParse ==
    /\ pc = "c_parse" /\ variant = "custom"
    /\ IF feeWallet = Invalid
       THEN parses' = parses + 1 /\ CustomThrow(Err("other", "parse"), FALSE)
       ELSE IF platformWallet = Invalid
       THEN parses' = parses + 2 /\ CustomThrow(Err("other", "parse"), FALSE)
       ELSE /\ parses' = parses + 2
            /\ pc' = "c_quote"
            /\ UNCHANGED <<lastError, origErr, tier, result>>
    /\ UNCHANGED <<script, variant, args, funderBal, initialBal, solAmount, attempt,
                   sleeps, quoteReqs, swapReqs, quote, instructions, tx, sent,
                   balanceReads, auxVars, ledgerVars>>

QuoteRequestExactOut(limit) ==
    [amount |-> toLamports(solAmount), swapMode |-> "ExactOut", maxAccounts |-> limit]

\* the query of GET /quote: jupiter-custom-tx-silent.js 132-143, jupiter.js
\* 101-107 and 344-350, jupiter-simple.js 108-114
QuoteRequest(limit) ==
    [amount |-> toLamports(solAmount), swapMode |-> "ExactIn", maxAccounts |-> limit]

\* what the aggregator may answer to a quote request for amount a: a new object
\* per request, id being the number of the request it answers
QuoteResponses(a) == {[inAmount |-> JsString(a), outAmount |-> o,
                       maxAccounts |-> maxAccounts, id |-> Len(quoteReqs) + 1] :
                         o \in {JsUndefined, JsString(7)}}

\* lines 39-45 with getQuote, lines 131-151
CustomGetQuote ==
    /\ pc = "c_quote" /\ variant = "custom"
    /\ quoteReqs' = Append(quoteReqs, QuoteRequest(maxAccounts))
    /\ \/ \E k \in ErrKinds :
            /\ CustomThrow(Err(k, "quote"), FALSE)
            /\ quote' = quote
       \/ /\ quote' \in QuoteResponses(toLamports(solAmount))
          /\ pc' = "c_instr"
          /\ UNCHANGED <<lastError, origErr, tier, result>>
    /\ UNCHANGED <<script, variant, args, funderBal, initialBal, solAmount, attempt,
                   sleeps, parses, swapReqs, instructions, tx, sent, balanceReads, auxVars, ledgerVars>>

holdingAccountOfUser(owner, offCurve) == [owner |-> feeWallet, offCurve |-> FALSE]

\* getAssociatedTokenAddress(mint, owner, allowOwnerOffCurve)
holdingAccount(owner, offCurve) == [owner |-> owner, offCurve |-> offCurve]

\* a request together with the kind of answer the aggregator gave to it:
\* "http_error" (!response.ok), "error_field" (a body with an error field), "ok"
Answered(req, a) ==
    [api |-> req.api, userPublicKey |-> req.userPublicKey, payer |-> req.payer,
     destinationTokenAccount |-> req.destinationTokenAccount, quote |-> req.quote,
     tier |-> tier, attempt |-> attempt, answer |-> a]

\* lines 61-66: the arguments of getSwapInstructions
InstructionsRequest ==
    [api |-> "swap-instructions", userPublicKey |-> feeWallet, payer |-> Null,
     destinationTokenAccount |-> holdingAccount(args.assetVaultPubkey, TRUE),
     quote |-> quote]

\* lines 47-66 with getSwapInstructions, lines 156-181
CustomGetInstructions ==
    /\ pc = "c_instr" /\ variant = "custom"
    /\ \/ \E k \in ErrKinds :
            /\ swapReqs' = Append(swapReqs, Answered(InstructionsRequest, "http_error"))
            /\ CustomThrow(Err(k, "instructions"), FALSE)
            /\ instructions' = instructions
       \/ \E k \in ErrKinds :
            /\ swapReqs' = Append(swapReqs, Answered(InstructionsRequest, "error_field"))
            /\ CustomThrow(Err(k, "route_build"), FALSE)
            /\ instructions' = instructions
       \/ /\ swapReqs' = Append(swapReqs, Answered(InstructionsRequest, "ok"))
          /\ instructions' \in PipelineResponses
          /\ pc' = "c_build"
          /\ UNCHANGED <<lastError, origErr, tier, result>>
    /\ UNCHANGED <<script, variant, args, funderBal, initialBal, solAmount, attempt,
                   sleeps, parses, quoteReqs, quote, tx, sent, balanceReads, auxVars, ledgerVars>>

\* lines 69-74 with buildCustomTransaction, lines 186-259; the lookup-table and
\* blockhash reads may fail
CustomBuild ==
    /\ pc = "c_build" /\ variant = "custom"
    /\ \/ \E k \in ErrKinds :
            /\ CustomThrow(Err(k, "build"), FALSE)
            /\ UNCHANGED <<tx, ledgerVars>>
       \/ /\ buildThrows(instructions)
          /\ CustomThrow(Err("other", "build"), FALSE)
          /\ UNCHANGED <<tx, ledgerVars>>
       \/ /\ ~buildThrows(instructions)
          /\ blockhashFetches' = blockhashFetches + 1
          /\ tx' = buildCustomTransaction(instructions, feeWallet, platformWallet,
                                          Connection(ledgerTables, blockhashFetches'))
          /\ UNCHANGED ledgerTables
          /\ pc' = "c_send"
          /\ UNCHANGED <<lastError, origErr, tier, result>>
    /\ instructions' = NoInstructions
    /\ UNCHANGED <<script, variant, args, funderBal, initialBal, solAmount, attempt,
                   sleeps, parses, quoteReqs, swapReqs, quote, sent, balanceReads, auxVars>>

\* a transaction handed to sendRawTransaction
Submission(t, accepted) ==
    [feePayer |-> t.feePayer, signatures |-> t.signatures, required |-> t.required,
     kind |-> t.kind, tier |-> tier, attempt |-> attempt, accepted |-> accepted,
     confirm |-> "none", err |-> FALSE, landed |-> FALSE, received |-> 0,
     blockhash |-> t.blockhash, calls |-> t.calls, signers |-> t.signers]

\* the preflight simulation passes only if the Funder can pay the input amount
canPay == funderBal >= toLamports(solAmount)

\* lines 77-81: tx.serialize() and sendRawTransaction, inside the try
CustomSend ==
    /\ pc = "c_send" /\ variant = "custom"
    /\ \/ \E k \in ErrKinds :
            /\ sent' = Append(sent, Submission(tx, FALSE))
            /\ CustomThrow(Err(k, "send"), TRUE)
       \/ /\ canPay
          /\ sent' = Append(sent, Submission(tx, TRUE))
          /\ pc' = "c_confirm"
          /\ UNCHANGED <<lastError, origErr, tier, result>>
    /\ tx' = NoTx
    /\ UNCHANGED <<script, variant, args, funderBal, initialBal, solAmount, attempt,
                   sleeps, parses, quoteReqs, swapReqs, quote, instructions,
                   balanceReads, auxVars, ledgerVars>>

\* tokens an executed ExactIn swap delivers: the quoted amount or, within the
\* slippage allowed, less
Deliveries(landed) ==
    IF ~landed THEN {0}
    ELSE IF quote.outAmount.t = "undefined" THEN {0}
    ELSE {quote.outAmount.v, quote.outAmount.v - 1}

\* confirmTransaction ends with outcome c for the last submitted transaction,
\* which the ledger has executed (landed) or not
Confirmed(c, landed) ==
    /\ \E r \in Deliveries(landed) :
          sent' = [sent EXCEPT ![Len(sent)].confirm = c, ![Len(sent)].landed = landed,
                               ![Len(sent)].received = r]
    /\ funderBal' = IF landed THEN funderBal - toLamports(solAmount) ELSE funderBal

\* confirmTransaction(signature, 'confirmed') resolves once the ledger has
\* processed the last submitted transaction: to { value: { err: null } } when it
\* executed, to { value: { err } } when its execution failed on chain (the
\* swap's slippage check, say, after the preflight simulation had passed) and
\* nothing but the fee was moved
ConfirmationResolves ==
    \/ Confirmed("ok", TRUE)
    \/ /\ sent' = [sent EXCEPT ![Len(sent)].confirm = "ok", ![Len(sent)].err = TRUE]
       /\ funderBal' = funderBal

\* lines 83-90: confirmTransaction returns, or throws on a timeout / expiry after
\* which the transaction may or may not have been executed
CustomConfirm ==
    /\ pc = "c_confirm" /\ variant = "custom"
    /\ \/ /\ ConfirmationResolves
          /\ Finish(Success(quote))
          /\ UNCHANGED <<lastError, origErr, tier>>
       \/ \E landed \in BOOLEAN, k \in ErrKinds :
            /\ Confirmed("timeout", landed)
            /\ CustomThrow(Err(k, "confirm"), TRUE)
    /\ UNCHANGED <<script, variant, args, initialBal, solAmount, attempt,
                   sleeps, parses, quoteReqs, swapReqs, quote, instructions, tx,
                   balanceReads, auxVars, ledgerVars>>

(***************************************************************************)
(* retry(fn, maxRetries, baseDelay) of utils/solana.js around the body of  *)
(* executePaymentAsSwap (jupiter.js, both revisions) and of                *)
(* JupiterSimpleSwap.executeSwap.  attempt is the loop index i.            *)
(***************************************************************************)
RECURSIVE Pow2(_)
Pow2(n) == IF n = 0 THEN 1 ELSE 2 * Pow2(n - 1)

retryDelayOffByOne(i) == BaseDelay * Pow2(i + 1)

\* line 135: baseDelay * Math.pow(2, i)
retryDelay(i) == BaseDelay * Pow2(i)

\* line 134: is a sleep and another attempt due after attempt i failed
retryAgain(i) == i < args.maxRetries - 1

retryErrorOfFirst(e) ==
    [kind |-> e.kind, at |-> "retry", tier |-> e.tier, attempt |-> 0,
     cause |-> e.at]

\* line 142: new Error(`Failed after ${maxRetries} attempts: ${lastError.message}`)
retryError(e) ==
    [kind |-> e.kind, at |-> "retry", tier |-> e.tier, attempt |-> e.attempt,
     cause |-> e.at]

\* lines 132-139 and 142: fn threw e in attempt i
PayThrow(e) ==
    /\ lastError' = e
    /\ IF retryAgain(attempt)
       THEN /\ sleeps' = Append(sleeps, retryDelay(attempt))
            /\ attempt' = attempt + 1
            /\ pc' = "p_parse"
            /\ result' = result
       ELSE /\ Finish(Failure(retryError(e)))
            /\ UNCHANGED <<sleeps, attempt>>

isPay == variant \in {"payV1", "payV2", "simple"}
readsBalances == variant \in {"payV1", "simple"}

\* retry's loop head (line 129) and fn's first lines: jupiter.js 32-34 / 281-283,
\* jupiter-simple.js 30-31
PayParse ==
    /\ pc = "p_parse" /\ isPay
    /\ IF args.maxRetries = 0
       THEN /\ Finish(Failure(Err("other", "retry_no_attempt")))
            /\ UNCHANGED <<parses, lastError, sleeps, attempt>>
       ELSE IF feeWallet = Invalid
       THEN parses' = parses + 1 /\ PayThrow(Err("other", "parse"))
       ELSE IF platformWallet = Invalid
       THEN parses' = parses + 2 /\ PayThrow(Err("other", "parse"))
       ELSE /\ parses' = parses + 2
            /\ pc' = IF readsBalances THEN "p_balances" ELSE "p_quote"
            /\ UNCHANGED <<lastError, sleeps, attempt, result>>
    /\ UNCHANGED <<script, variant, args, funderBal, initialBal, solAmount, tier,
                   quoteReqs, swapReqs, quote, instructions, tx, sent, balanceReads,
                   origErr, auxVars, ledgerVars>>

\* jupiter.js 38-39, jupiter-simple.js 34-51: ledger reads before the quote
PayInitialBalances ==
    /\ pc = "p_balances" /\ isPay
    /\ \/ PayThrow(Err("other", "balances"))
       \/ /\ pc' = "p_quote"
          /\ UNCHANGED <<lastError, sleeps, attempt, result>>
    /\ UNCHANGED <<script, variant, args, funderBal, initialBal, solAmount, parses, tier,
                   quoteReqs, swapReqs, quote, instructions, tx, sent, balanceReads,
                   origErr, auxVars, ledgerVars>>

\* getQuote's validation, jupiter.js 119 / 362, jupiter-simple.js 139
quoteValid(q) == ~(~truthy(q.inAmount) \/ ~truthy(q.outAmount))

\* jupiter.js 57-62 / 303-308 with getQuote 100-124 / 343-367; jupiter-simple.js 57-62
PayGetQuote ==
    /\ pc = "p_quote" /\ isPay
    /\ quoteReqs' = Append(quoteReqs, QuoteRequest(0))
    /\ \/ /\ PayThrow(Err("other", "quote"))
          /\ quote' = quote
       \/ \E q \in QuoteResponses(toLamports(solAmount)) :
            IF quoteValid(q)
            THEN /\ quote' = q
                 /\ pc' = "p_swaptx"
                 /\ UNCHANGED <<lastError, sleeps, attempt, result>>
            ELSE /\ PayThrow(Err("other", "invalid_quote"))
                 /\ quote' = quote
    /\ UNCHANGED <<script, variant, args, funderBal, initialBal, solAmount, parses, tier,
                   swapReqs, instructions, tx, sent, balanceReads, origErr, auxVars, ledgerVars>>

SwapRequestFirstQuote ==
    [api |-> "swap",
     userPublicKey |-> feeWallet,
     payer |-> IF variant = "payV2" THEN Null ELSE platformWallet,
     destinationTokenAccount |->
        IF variant = "simple" THEN holdingAccount(Null, FALSE)
        ELSE holdingAccount(args.assetVaultPubkey, TRUE),
     quote |-> IF swapReqs = <<>> THEN quote ELSE swapReqs[1].quote]

\* the body of the POST /swap request: jupiter.js 137-146 (payer given),
\* 380-389 (no payer), jupiter-simple.js 161-169 (payer, no destination)
SwapRequest ==
    [api |-> "swap",
     userPublicKey |-> feeWallet,
     payer |-> IF variant = "payV2" THEN Null ELSE platformWallet,
     destinationTokenAccount |->
        IF variant = "simple" THEN holdingAccount(Null, FALSE)
        ELSE holdingAccount(args.assetVaultPubkey, TRUE),
     quote |-> quote]

\* The aggregator builds the transaction from the request alone: its fee payer is
\* the payer the request names, or else the user; both have to sign.
aggregatorTx(req, kind) ==
    LET fp == IF req.payer # Null THEN req.payer ELSE req.userPublicKey
    IN  [feePayer |-> fp, signatures |-> {}, required |-> {fp, req.userPublicKey},
         kind |-> kind, instructions |-> <<>>, tables |-> <<>>, blockhash |-> 0,
         calls |-> <<>>, signers |-> <<>>]

\* what swapResponse.swapTransaction decodes to; "absent": the body has an error
\* field and no swapTransaction
TxKinds == {"versioned", "legacy", "garbage", "absent"}

\* jupiter.js 66-73 / 313-319 with getSwapTransaction; jupiter-simple.js 65-71
PayGetSwapTransaction ==
    /\ pc = "p_swaptx" /\ isPay
    /\ \/ /\ swapReqs' = Append(swapReqs, Answered(SwapRequest, "http_error"))
          /\ PayThrow(Err("other", "swaptx"))
          /\ tx' = tx
       \/ \E kind \in TxKinds :
            /\ swapReqs' = Append(swapReqs,
                  Answered(SwapRequest, IF kind = "absent" THEN "error_field" ELSE "ok"))
            /\ tx' = aggregatorTx(SwapRequest, kind)
            /\ pc' = "p_execute"
            /\ UNCHANGED <<lastError, sleeps, attempt, result>>
    /\ UNCHANGED <<script, variant, args, funderBal, initialBal, solAmount, parses, tier,
                   quoteReqs, quote, instructions, sent, balanceReads, origErr, auxVars, ledgerVars>>

\* executeSwap's signing: jupiter.js 196-200 (both wallets), 428-438 (fee wallet
\* only; a legacy transaction gets feePayer = platformWallet first);
\* jupiter-simple.js 223-227 (both wallets)
signNothing(t) == t

signSwapTransaction(t) ==
    IF variant = "payV2"
    THEN IF t.kind = "versioned"
         THEN [t EXCEPT !.signatures = {feeWallet} \cap t.required,
                        !.signers = <<feeWallet>>]
         ELSE [t EXCEPT !.feePayer = platformWallet,
                        !.required = t.required \cup {platformWallet},
                        !.signatures = {feeWallet},
                        !.signers = <<feeWallet>>]
    ELSE [t EXCEPT !.signatures = {platformWallet, feeWallet},
                   !.signers = <<platformWallet, feeWallet>>]

\* Transaction.serialize() verifies that every required signature is present;
\* VersionedTransaction.serialize() does not
serializeThrows(t) == t.kind = "legacy" /\ ~(t.required \subseteq t.signatures)

\* the ledger accepts a transaction only with all the signatures its message requires
ledgerAccepts(t) == canPay /\ t.required \subseteq t.signatures

\* executeSwap up to sendRawTransaction: jupiter.js 177-208 / 410-445,
\* jupiter-simple.js 204-235
PayExecuteSwap ==
    /\ pc = "p_execute" /\ isPay
    /\ LET signed == signSwapTransaction(tx) IN
       IF tx.kind \in {"garbage", "absent"}
       THEN PayThrow(Err("other", "deserialize")) /\ sent' = sent
       ELSE IF serializeThrows(signed)
       THEN PayThrow(Err("other", "serialize")) /\ sent' = sent
       ELSE \/ \E k \in ErrKinds :
                 /\ sent' = Append(sent, Submission(signed, FALSE))
                 /\ PayThrow(Err(k, "send"))
            \/ /\ ledgerAccepts(signed)
               /\ sent' = Append(sent, Submission(signed, TRUE))
               /\ pc' = "p_confirm"
               /\ UNCHANGED <<lastError, sleeps, attempt, result>>
    /\ tx' = NoTx
    /\ UNCHANGED <<script, variant, args, funderBal, initialBal, solAmount, parses, tier,
                   quoteReqs, swapReqs, quote, instructions, balanceReads, origErr, auxVars, ledgerVars>>

\* confirmTransaction: jupiter.js 211 / 448, jupiter-simple.js 238
PayConfirm ==
    /\ pc = "p_confirm" /\ isPay
    /\ \/ /\ ConfirmationResolves
          /\ IF readsBalances
             THEN pc' = "p_final" /\ result' = result
             ELSE Finish(Success(quote))
          /\ UNCHANGED <<lastError, sleeps, attempt>>
       \/ \E landed \in BOOLEAN :
            /\ Confirmed("timeout", landed)
            /\ PayThrow(Err("other", "confirm"))
    /\ UNCHANGED <<script, variant, args, initialBal, solAmount, parses, tier,
                   quoteReqs, swapReqs, quote, instructions, tx, balanceReads,
                   origErr, auxVars, ledgerVars>>

\* jupiter.js 84-94, jupiter-simple.js 81-100: ledger reads after the swap, still
\* inside fn
PayFinalBalances ==
    /\ pc = "p_final" /\ isPay
    /\ balanceReads' = balanceReads + 1
    /\ \/ PayThrow(Err("other", "final_balances"))
       \/ /\ Finish(Success(quote))
          /\ UNCHANGED <<lastError, sleeps, attempt>>
    /\ UNCHANGED <<script, variant, args, funderBal, initialBal, solAmount, parses, tier,
                   quoteReqs, swapReqs, quote, instructions, tx, sent, origErr, auxVars, ledgerVars>>

(***************************************************************************)
(* The entry scripts after the pipeline returned or threw, with            *)
(* executeWithErrorHandling of utils/response.js around main.              *)
(***************************************************************************)
\* lamports someone else may send to the Funder while the script runs
Inbound == {0, 3000000}

\* swap-fee-to-asset-silent.js 67-79
silentData(r, finalFeeBalance) ==
    [NoResponse EXCEPT
        !.keys = {"operation", "signature", "inputAmount", "outputAmount",
                  "solAmountSpent", "tokenMint", "assetVaultPubkey", "feeStrategy",
                  "swapMode", "feeWalletSpent", "platformWalletFeesSpent"},
        !.inputAmount = r.inAmount,
        !.outputAmount = r.outAmount,
        !.feeWalletSpent = initialBal - finalFeeBalance]

\* swap-fee-to-asset.js 112-126 / 221-234
swapData(r) ==
    [NoResponse EXCEPT
        !.keys = {"operation", "txSignature", "inputAmount", "outputAmount",
                  "solAmountSpent", "tokenMint", "assetVaultPubkey", "feeStrategy",
                  "swapMode", "buyPrice", "tokensReceived", "tokenDecimals"}
                 \cup (IF script = "auto" THEN {"autoMode"} ELSE {}),
        !.inputAmount = r.inAmount,
        !.outputAmount = r.outAmount]

\* main's last lines and executeWithErrorHandling: the final getBalance reads,
\* createSuccessResponse, or createErrorResponse for whatever main threw
MainReturn ==
    /\ pc = "done" /\ script # "lib" /\ response.success = "none"
    /\ IF result.status = "error"
       THEN /\ response' = createErrorResponse(result.error)
            /\ funderBal' = funderBal
       ELSE \E d \in Inbound :
            /\ funderBal' = funderBal + d
            /\ \/ response' = createErrorResponse(Err("other", "final_balance"))
               \/ response' = createSuccessResponse(
                                  IF script = "silent"
                                  THEN silentData(result, funderBal')
                                  ELSE swapData(result))
    /\ UNCHANGED <<script, variant, args, pc, initialBal, solAmount, pipeVars, result,
                   built, quoteResp, got, ledgerVars, frames, call>>

Next ==
    \/ MainReturn
    \/ SilentMain
    \/ AutoMain
    \/ FixedMain
    \/ CustomParse
    \/ CustomGetQuote
    \/ CustomGetInstructions
    \/ CustomBuild
    \/ CustomSend
    \/ CustomConfirm
    \/ PayParse
    \/ PayInitialBalances
    \/ PayGetQuote
    \/ PayGetSwapTransaction
    \/ PayExecuteSwap
    \/ PayConfirm
    \/ PayFinalBalances

Spec == Init /\ [][Next]_vars

\* the pipeline invoked directly, as by a caller of the library
InitLive ==
    /\ Init /\ script = "lib"
    /\ args.solAmount = 20000000 /\ args.maxAccounts = 0
    /\ args.platformWalletKey # Cred("base58", "K1", 64)
    /\ funderBal = 5000000

NextLive ==
    \/ CustomParse
    \/ CustomGetQuote
    \/ CustomGetInstructions
    \/ CustomBuild
    \/ CustomSend
    \/ CustomConfirm
    \/ PayParse
    \/ PayInitialBalances
    \/ PayGetQuote
    \/ PayGetSwapTransaction
    \/ PayExecuteSwap
    \/ PayConfirm
    \/ PayFinalBalances

\* every awaited network call returns or throws: no step is postponed for ever
SpecLive == InitLive /\ [][NextLive]_vars /\ WF_vars(NextLive)

\* executeSwapWithCustomPayer called directly, with or without a limit of the
\* caller's
InitFallback ==
    /\ Init /\ script = "lib" /\ variant = "custom"
    /\ args.solAmount = 20000000
    /\ funderBal = 5000000

NextFallback ==
    \/ CustomParse
    \/ CustomGetQuote
    \/ CustomGetInstructions
    \/ CustomBuild
    \/ CustomSend
    \/ CustomConfirm

\* every awaited network call returns or throws
SpecFallback == InitFallback /\ [][NextFallback]_vars /\ WF_vars(NextFallback)

(***************************************************************************)
(* buildCustomTransaction as a function of the aggregator's response.      *)
(***************************************************************************)
InitAssemble ==
    /\ script = "lib"
    /\ variant = "custom"
    /\ args \in {a \in ArgsOf("lib", "custom") : /\ parsePrivateKey(a.feeWalletKey) # Invalid
                                      /\ parsePrivateKey(a.platformWalletKey) # Invalid
                                      /\ a.solAmount = 20000000
                                      /\ a.maxAccounts = 0}
    /\ funderBal = 0
    /\ pc = "assemble"
    /\ initialBal = 0
    /\ solAmount = args.solAmount
    /\ attempt = 0
    /\ sleeps = <<>>
    /\ parses = 0
    /\ tier = 0
    /\ quoteReqs = <<>>
    /\ swapReqs = <<>>
    /\ quote = NoQuote
    /\ instructions \in Responses
    /\ tx = NoTx
    /\ sent = <<>>
    /\ balanceReads = 0
    /\ lastError = NoErr
    /\ origErr = NoErr
    /\ result = NoResult
    /\ built = NoBuilt
    /\ quoteResp = NoQuoteResp
    /\ got = NoGot
    /\ response = NoResponse
    /\ ledgerTables \in SUBSET Tables
    /\ blockhashFetches = 0
    /\ frames = <<>>
    /\ call = <<>>

\* buildCustomTransaction, lines 186-259
Assemble ==
    /\ pc = "assemble"
    /\ blockhashFetches' = IF buildThrows(instructions) THEN blockhashFetches
                           ELSE blockhashFetches + 1
    /\ built' = IF buildThrows(instructions)
                THEN [status |-> "throws", tx |-> NoTx]
                ELSE [status |-> "built",
                      tx |-> buildCustomTransaction(instructions, feeWallet,
                                platformWallet,
                                Connection(ledgerTables, blockhashFetches'))]
    /\ pc' = "assembled"
    /\ UNCHANGED <<script, variant, args, funderBal, initialBal, solAmount, pipeVars,
                   result, quoteResp, got, response, ledgerTables, frames, call>>

NextAssemble == Assemble

SpecAssemble == InitAssemble /\ [][NextAssemble]_vars

(***************************************************************************)
(* getQuote as a function of the aggregator's HTTP response, per class.    *)
(***************************************************************************)
JsAmounts == {JsUndefined, JsString(0), JsString(7), JsNumber(0), JsNumber(7)}

QuoteBodies == [inAmount : JsAmounts, outAmount : JsAmounts, maxAccounts : {0}]

\* jupiter-custom-tx-silent.js 146-150 returns response.json() as it is;
\* jupiter.js 111-123 / 354-366 and jupiter-simple.js 129-144 validate it
getQuote(v, resp) ==
    IF ~resp.ok
    THEN [status |-> "thrown", quote |-> NoQuote, error |-> "quote_failed"]
    ELSE IF v # "custom" /\ ~quoteValid(resp.body)
    THEN [status |-> "thrown", quote |-> NoQuote, error |-> "invalid_quote"]
    ELSE [status |-> "returned", quote |-> resp.body, error |-> "none"]

InitQuote ==
    /\ script = "lib"
    /\ variant \in Variants
    /\ args \in {a \in ArgsOf("lib", "custom") :
                    /\ parsePrivateKey(a.feeWalletKey) # Invalid
                    /\ a.platformWalletKey = Cred("base58", "K2", 64)
                    /\ a.solAmount = 20000000}
    /\ funderBal = 0
    /\ pc = "getQuote"
    /\ initialBal = 0
    /\ solAmount = args.solAmount
    /\ attempt = 0
    /\ sleeps = <<>>
    /\ parses = 0
    /\ tier = 0
    /\ quoteReqs = <<>>
    /\ swapReqs = <<>>
    /\ quote = NoQuote
    /\ instructions = NoInstructions
    /\ tx = NoTx
    /\ sent = <<>>
    /\ balanceReads = 0
    /\ lastError = NoErr
    /\ origErr = NoErr
    /\ result = NoResult
    /\ built = NoBuilt
    /\ quoteResp \in [ok : BOOLEAN, body : QuoteBodies]
    /\ got = NoGot
    /\ response = NoResponse
    /\ ledgerTables = Tables
    /\ blockhashFetches = 0
    /\ frames = <<>>
    /\ call = <<>>

ApplyGetQuote ==
    /\ pc = "getQuote"
    /\ got' = getQuote(variant, quoteResp)
    /\ pc' = "gotQuote"
    /\ UNCHANGED <<script, variant, args, funderBal, initialBal, solAmount, pipeVars,
                   result, built, quoteResp, response, ledgerVars, frames, call>>

NextQuote == ApplyGetQuote

SpecQuote == InitQuote /\ [][NextQuote]_vars

(***************************************************************************)
(* Two calls of the pipeline on one object, running concurrently.  The     *)
(* object holds this.connection only, assigned once in the constructor;    *)
(* everything else is a const / let of the async method, so each call has  *)
(* its own activation record (frame).  A step is the code between two      *)
(* awaits; the event loop interleaves the steps of the two calls.          *)
(***************************************************************************)
Invocations == {1, 2}
CallAmounts == {20000000, 30000000}
ConcurrentBalances == {3000000, 5000000}

NoCallQuote == [for |-> 0, inAmount |-> 0, outAmount |-> 0]
NoCallRequest == [by |-> 0, quote |-> NoCallQuote, userPublicKey |-> Null]
NoCallBlockhash == [by |-> 0, value |-> 0]
NoCallTx == [by |-> 0, quote |-> NoCallQuote, blockhash |-> 0]
NoCallResult == [status |-> "none", inputAmount |-> 0, outputAmount |-> 0]

NewFrame(amount) ==
    [pc |-> "start", solAmount |-> amount, before |-> 0, quote |-> NoCallQuote,
     request |-> NoCallRequest, blockhash |-> NoCallBlockhash, tx |-> NoCallTx,
     after |-> 0, result |-> NoCallResult]

frameShared(i) == 1

\* the activation record in which call i keeps its locals
frame(i) == i

Local(i) == frames[frame(i)]

InitConcurrent ==
    /\ script = "lib"
    /\ variant \in {"custom", "payV1"}
    /\ args \in {a \in ArgsOf("lib", variant) :
                    /\ a.feeWalletKey = Cred("base58", "K1", 64)
                    /\ a.platformWalletKey = Cred("base58", "K2", 64)
                    /\ a.solAmount = 20000000
                    /\ a.maxRetries = DefaultMaxRetries
                    /\ a.maxAccounts = 0}
    /\ funderBal \in ConcurrentBalances
    /\ pc = "concurrent"
    /\ initialBal = 0
    /\ solAmount = 0
    /\ attempt = 0
    /\ sleeps = <<>>
    /\ parses = 0
    /\ tier = 0
    /\ quoteReqs = <<>>
    /\ swapReqs = <<>>
    /\ quote = NoQuote
    /\ instructions = NoInstructions
    /\ tx = NoTx
    /\ sent = <<>>
    /\ balanceReads = 0
    /\ lastError = NoErr
    /\ origErr = NoErr
    /\ result = NoResult
    /\ built = NoBuilt
    /\ quoteResp = NoQuoteResp
    /\ got = NoGot
    /\ response = NoResponse
    /\ ledgerTables = Tables
    /\ blockhashFetches = 0
    /\ frames \in [Invocations -> {NewFrame(a) : a \in CallAmounts}]
    /\ call = <<>>

singleVars == <<script, variant, args, pc, initialBal, solAmount, pipeVars, result,
                built, quoteResp, got, response, ledgerTables, call>>

CallThrows(i) ==
    frames' = [frames EXCEPT ![frame(i)] =
                  [Local(i) EXCEPT !.pc = "done", !.result.status = "error"]]

\* jupiter.js 32-39: parse the keys and, there, read the initial balances;
\* jupiter-custom-tx-silent.js 35-36: parse the keys
CallStart(i) ==
    /\ pc = "concurrent" /\ frames[i].pc = "start"
    /\ frames' = [frames EXCEPT ![frame(i)] =
                    [Local(i) EXCEPT !.pc = "quote",
                                     !.before = IF variant = "payV1" THEN funderBal
                                                ELSE 0]]
    /\ UNCHANGED <<singleVars, funderBal, blockhashFetches>>

\* jupiter.js 57-62, jupiter-custom-tx-silent.js 39-45: the aggregator answers
\* the request of call i
CallGetQuote(i) ==
    /\ pc = "concurrent" /\ frames[i].pc = "quote"
    /\ \/ CallThrows(i)
       \/ \E o \in {7, 9} :
            frames' = [frames EXCEPT ![frame(i)] =
                [Local(i) EXCEPT !.pc = "request",
                                 !.quote = [for |-> i,
                                            inAmount |-> toLamports(Local(i).solAmount),
                                            outAmount |-> o]]]
    /\ UNCHANGED <<singleVars, funderBal, blockhashFetches>>

\* jupiter.js 66-73, jupiter-custom-tx-silent.js 61-66: the swap request made
\* from the quote held by the call
CallRequest(i) ==
    /\ pc = "concurrent" /\ frames[i].pc = "request"
    /\ \/ CallThrows(i)
       \/ frames' = [frames EXCEPT ![frame(i)] =
             [Local(i) EXCEPT !.pc = "build",
                              !.request = [by |-> i, quote |-> Local(i).quote,
                                           userPublicKey |-> feeWallet]]]
    /\ UNCHANGED <<singleVars, funderBal, blockhashFetches>>

\* jupiter-custom-tx-silent.js 69-74 with 241-256: fetch a blockhash, compile
\* and sign; jupiter.js 177-200: deserialize the aggregator's transaction and sign
CallBuild(i) ==
    /\ pc = "concurrent" /\ frames[i].pc = "build"
    /\ IF variant = "custom"
       THEN /\ blockhashFetches' = blockhashFetches + 1
            /\ frames' = [frames EXCEPT ![frame(i)] =
                  [Local(i) EXCEPT !.pc = "send",
                                   !.blockhash = [by |-> i, value |-> blockhashFetches'],
                                   !.tx = [by |-> i, quote |-> Local(i).request.quote,
                                           blockhash |-> blockhashFetches']]]
       ELSE /\ blockhashFetches' = blockhashFetches
            /\ frames' = [frames EXCEPT ![frame(i)] =
                  [Local(i) EXCEPT !.pc = "send",
                                   !.tx = [by |-> i, quote |-> Local(i).request.quote,
                                           blockhash |-> 0]]]
    /\ UNCHANGED <<singleVars, funderBal>>

\* sendRawTransaction: the preflight passes if the Funder can pay the input
CallSend(i) ==
    /\ pc = "concurrent" /\ frames[i].pc = "send"
    /\ IF funderBal >= Local(i).tx.quote.inAmount
       THEN frames' = [frames EXCEPT ![frame(i)] = [Local(i) EXCEPT !.pc = "confirm"]]
       ELSE CallThrows(i)
    /\ UNCHANGED <<singleVars, funderBal, blockhashFetches>>

\* confirmTransaction: the ledger has executed the transaction of call i, or
\* has rejected it because the other call's transaction was executed first
CallConfirm(i) ==
    /\ pc = "concurrent" /\ frames[i].pc = "confirm"
    /\ IF funderBal >= Local(i).tx.quote.inAmount
       THEN /\ funderBal' = funderBal - Local(i).tx.quote.inAmount
            /\ frames' = [frames EXCEPT ![frame(i)] = [Local(i) EXCEPT !.pc = "final"]]
       ELSE /\ funderBal' = funderBal
            /\ CallThrows(i)
    /\ UNCHANGED <<singleVars, blockhashFetches>>

\* jupiter.js 84-93, jupiter-custom-tx-silent.js 85-90: final balances (the
\* first only) and the success result
CallReturn(i) ==
    /\ pc = "concurrent" /\ frames[i].pc = "final"
    /\ frames' = [frames EXCEPT ![frame(i)] =
          [Local(i) EXCEPT !.pc = "done",
                           !.after = IF variant = "payV1" THEN funderBal ELSE 0,
                           !.result = [status |-> "success",
                                       inputAmount |-> Local(i).quote.inAmount,
                                       outputAmount |-> Local(i).quote.outAmount]]]
    /\ UNCHANGED <<singleVars, funderBal, blockhashFetches>>

NextConcurrent ==
    \E i \in Invocations :
        \/ CallStart(i)
        \/ CallGetQuote(i)
        \/ CallRequest(i)
        \/ CallBuild(i)
        \/ CallSend(i)
        \/ CallConfirm(i)
        \/ CallReturn(i)

SpecConcurrent == InitConcurrent /\ [][NextConcurrent]_vars

(***************************************************************************)
(* getQuote called twice with the same arguments.  The aggregator answers  *)
(* an ExactIn request with the requested amount as inAmount; the output    *)
(* amount follows the market and the request may fail.                     *)
(***************************************************************************)
requestOfCallCounting(n, limit) == QuoteRequest(limit + n)

\* the request of the n-th call: getQuote builds it from its arguments alone
\* (the classes hold this.connection only), so n plays no part
requestOfCall(n, limit) == QuoteRequest(limit)

AggregatorAnswers(req) ==
    [ok : BOOLEAN,
     body : {[inAmount |-> JsString(req.amount), outAmount |-> o, maxAccounts |-> 0] :
                o \in {JsUndefined, JsString(7), JsString(9)}}]

InitTwice ==
    /\ script = "lib"
    /\ variant \in Variants
    /\ args \in {a \in ArgsOf("lib", variant) :
                    /\ a.feeWalletKey = Cred("base58", "K1", 64)
                    /\ a.platformWalletKey = Cred("base58", "K2", 64)
                    /\ a.maxRetries = DefaultMaxRetries}
    /\ funderBal = 0
    /\ pc = "twice"
    /\ initialBal = 0
    /\ solAmount = args.solAmount
    /\ attempt = 0
    /\ sleeps = <<>>
    /\ parses = 0
    /\ tier = 0
    /\ quoteReqs = <<>>
    /\ swapReqs = <<>>
    /\ quote = NoQuote
    /\ instructions = NoInstructions
    /\ tx = NoTx
    /\ sent = <<>>
    /\ balanceReads = 0
    /\ lastError = NoErr
    /\ origErr = NoErr
    /\ result = NoResult
    /\ built = NoBuilt
    /\ quoteResp = NoQuoteResp
    /\ got = NoGot
    /\ response = NoResponse
    /\ ledgerTables = Tables
    /\ blockhashFetches = 0
    /\ frames = <<>>
    /\ call = [requests |-> <<>>, outcomes |-> <<>>]

\* one call of getQuote({inputMint, outputMint, amount, slippageBps, maxAccounts})
GetQuoteAgain ==
    /\ pc = "twice" /\ Len(call.requests) < 2
    /\ LET req == requestOfCall(Len(call.requests) + 1, args.maxAccounts) IN
       \E resp \in AggregatorAnswers(req) :
          call' = [requests |-> Append(call.requests, req),
                   outcomes |-> Append(call.outcomes, getQuote(variant, resp))]
    /\ UNCHANGED <<script, variant, args, pc, funderBal, initialBal, solAmount, pipeVars,
                   result, built, quoteResp, got, response, ledgerVars, frames>>

NextTwice == GetQuoteAgain

SpecTwice == InitTwice /\ [][NextTwice]_vars

(***************************************************************************)
(* utils/response.js.  A JavaScript object is a function from its keys to  *)
(* values (strings here); { a, ...o } lets the keys of o override.         *)
(***************************************************************************)
\* { ...base, ...over }
spread(base, over) ==
    [k \in DOMAIN base \cup DOMAIN over |->
        IF k \in DOMAIN over THEN over[k] ELSE base[k]]

Objects == UNION {[K -> {"true", "false"}] : K \in SUBSET {"success", "test"}}

\* values a promise may reject with: an Error, a string, null
Thrown == {[kind |-> "Error", message |-> "boom"],
           [kind |-> "string", message |-> "boom"],
           [kind |-> "null", message |-> "null"]}

\* response.js 8-14: { success: true, timestamp, ...data }
createSuccessResponseObject(data) ==
    spread([k \in {"success", "timestamp"} |->
               IF k = "success" THEN "true" ELSE "now"], data)

\* response.js 19-28: { success: false, error: message, timestamp, ...details }
createErrorResponseObject(error, details) ==
    spread([k \in {"success", "error", "timestamp"} |->
               CASE k = "success" -> "false"
                 [] k = "error" -> error.message
                 [] OTHER -> "now"], details)

\* response.js 34-35: process.exit(response.success ? 0 : 1)
exitCodeOf(r) == IF r["success"] = "true" THEN "0" ELSE "1"

\* what the function handed to executeWithErrorHandling does
FnOutcomes ==
    {[threw |-> FALSE, value |-> d, error |-> [kind |-> "none", message |-> ""]] :
        d \in Objects}
    \cup {[threw |-> TRUE, value |-> <<>>, error |-> e] : e \in Thrown}

NotExited == "running"

InitResponse ==
    /\ script = "lib"
    /\ variant = "custom"
    /\ args \in {a \in ArgsOf("lib", "custom") :
                    /\ a.feeWalletKey = Cred("base58", "K1", 64)
                    /\ a.platformWalletKey = Cred("base58", "K2", 64)
                    /\ a.solAmount = 20000000
                    /\ a.maxAccounts = 0}
    /\ funderBal = 0
    /\ pc = "response"
    /\ initialBal = 0
    /\ solAmount = 0
    /\ attempt = 0
    /\ sleeps = <<>>
    /\ parses = 0
    /\ tier = 0
    /\ quoteReqs = <<>>
    /\ swapReqs = <<>>
    /\ quote = NoQuote
    /\ instructions = NoInstructions
    /\ tx = NoTx
    /\ sent = <<>>
    /\ balanceReads = 0
    /\ lastError = NoErr
    /\ origErr = NoErr
    /\ result = NoResult
    /\ built = NoBuilt
    /\ quoteResp = NoQuoteResp
    /\ got = NoGot
    /\ response = NoResponse
    /\ ledgerTables = Tables
    /\ blockhashFetches = 0
    /\ frames = <<>>
    /\ \E fn \in FnOutcomes, data \in Objects, error \in Thrown, details \in Objects :
          call = [fn |-> fn, data |-> data, error |-> error, details |-> details,
                  emitted |-> <<>>, exitCode |-> NotExited, created |-> <<>>]

utilityVars == <<script, variant, args, pc, funderBal, initialBal, solAmount, pipeVars,
                 result, built, quoteResp, got, response, ledgerVars, frames>>

\* response.js 41-52
executeWithErrorHandling ==
    /\ pc = "response" /\ call.exitCode = NotExited
    /\ IF ~call.fn.threw
       THEN LET r == createSuccessResponseObject(call.fn.value) IN
            call' = [call EXCEPT !.emitted = <<r>>, !.exitCode = exitCodeOf(r)]
       ELSE IF call.fn.error.kind = "null"
       THEN \* error.stack of null throws inside the catch: the promise is
            \* rejected, nothing is printed; the runtime ends the process with
            \* 1, or with 0 where unhandled rejections only warn
            \E c \in {"0", "1"} : call' = [call EXCEPT !.exitCode = c]
       ELSE LET r == createErrorResponseObject(call.fn.error,
                        [k \in {"stack", "name"} |-> call.fn.error.kind]) IN
            call' = [call EXCEPT !.emitted = <<r>>, !.exitCode = exitCodeOf(r)]
    /\ UNCHANGED utilityVars

\* createSuccessResponse(data) and createErrorResponse(error, details) called
\* directly, as test-integration.js 58-59 does
CreateResponses ==
    /\ pc = "response" /\ call.created = <<>>
    /\ call' = [call EXCEPT !.created =
                   <<createSuccessResponseObject(call.data),
                     createErrorResponseObject(call.error, call.details)>>]
    /\ UNCHANGED utilityVars

NextResponse ==
    \/ executeWithErrorHandling
    \/ CreateResponses

SpecResponse == InitResponse /\ [][NextResponse]_vars

(***************************************************************************)
(* JupiterPaymentsAsSwap.validateSwapParams, jupiter.js 226-248.           *)
(***************************************************************************)
Missing == Cred("undefined", Null, 0)
Empty == Cred("empty", Null, 0)

\* !params[field] for a string parameter
present(c) == c.enc \notin {"undefined", "empty"}

\* utils/solana.js 29-35: new PublicKey(string) takes a base58 string of 32 bytes
parsePublicKey(c) == IF c.enc = "base58" /\ c.len = 32 THEN c.key ELSE Invalid

PrivateKeyParams == {Missing, Empty, Cred("base58", "K1", 64), Cred("garbage", "K1", 5)}
PublicKeyParams == {Missing, Cred("base58", "V1", 32), Cred("garbage", "V1", 5)}
AmountParams == {JsUndefined, JsNaN, JsNumber(0), JsNumber(-1), JsNumber(2)}

ValidateParams ==
    [feeWalletKey : PrivateKeyParams, assetVaultPubkey : PublicKeyParams,
     tokenMint : PublicKeyParams, solAmount : AmountParams,
     platformWalletKey : PrivateKeyParams]

validateSwapParamsNoAmountCheck(params) ==
    IF \/ ~present(params.feeWalletKey) \/ ~present(params.assetVaultPubkey)
       \/ ~present(params.tokenMint) \/ ~present(params.platformWalletKey)
    THEN "Missing required parameter"
    ELSE IF \/ parsePrivateKey(params.feeWalletKey) = Invalid
            \/ parsePrivateKey(params.platformWalletKey) = Invalid
            \/ parsePublicKey(params.assetVaultPubkey) = Invalid
            \/ parsePublicKey(params.tokenMint) = Invalid
    THEN "Parameter validation failed"
    ELSE "returned"

\* lines 227-247: what the call throws, or "returned"
validateSwapParams(params) ==
    IF \/ ~present(params.feeWalletKey) \/ ~present(params.assetVaultPubkey)
       \/ ~present(params.tokenMint) \/ ~truthy(params.solAmount)
       \/ ~present(params.platformWalletKey)
    THEN "Missing required parameter"
    ELSE IF params.solAmount.t = "number" /\ params.solAmount.v <= 0
    THEN "SOL amount must be greater than 0"
    ELSE IF \/ parsePrivateKey(params.feeWalletKey) = Invalid
            \/ parsePrivateKey(params.platformWalletKey) = Invalid
            \/ parsePublicKey(params.assetVaultPubkey) = Invalid
            \/ parsePublicKey(params.tokenMint) = Invalid
    THEN "Parameter validation failed"
    ELSE "returned"

InitValidate ==
    /\ script = "lib"
    /\ variant = "payV1"
    /\ args \in {a \in ArgsOf("lib", "payV1") :
                    /\ a.feeWalletKey = Cred("base58", "K1", 64)
                    /\ a.platformWalletKey = Cred("base58", "K2", 64)
                    /\ a.solAmount = 20000000
                    /\ a.maxRetries = DefaultMaxRetries}
    /\ funderBal = 0
    /\ pc = "validate"
    /\ initialBal = 0
    /\ solAmount = 0
    /\ attempt = 0
    /\ sleeps = <<>>
    /\ parses = 0
    /\ tier = 0
    /\ quoteReqs = <<>>
    /\ swapReqs = <<>>
    /\ quote = NoQuote
    /\ instructions = NoInstructions
    /\ tx = NoTx
    /\ sent = <<>>
    /\ balanceReads = 0
    /\ lastError = NoErr
    /\ origErr = NoErr
    /\ result = NoResult
    /\ built = NoBuilt
    /\ quoteResp = NoQuoteResp
    /\ got = NoGot
    /\ response = NoResponse
    /\ ledgerTables = Tables
    /\ blockhashFetches = 0
    /\ frames = <<>>
    /\ \E params \in ValidateParams : call = [params |-> params, outcome |-> "none"]

\* the call of validateSwapParams: nothing but its outcome changes
Validate ==
    /\ pc = "validate" /\ call.outcome = "none"
    /\ call' = [call EXCEPT !.outcome = validateSwapParams(call.params)]
    /\ pc' = "validated"
    /\ UNCHANGED <<script, variant, args, funderBal, initialBal, solAmount, pipeVars,
                   result, built, quoteResp, got, response, ledgerVars, frames>>

NextValidate == Validate

SpecValidate == InitValidate /\ [][NextValidate]_vars

(***************************************************************************)
(* Amounts of swap-fee-to-asset.js main: the lamports asked of the         *)
(* aggregator and the token amount reported, lines 83-127 and 192-234.     *)
(***************************************************************************)
\* the variables of the swap pipeline before anything ran
pipelineIdle ==
    /\ attempt = 0
    /\ sleeps = <<>>
    /\ parses = 0
    /\ tier = 0
    /\ quoteReqs = <<>>
    /\ swapReqs = <<>>
    /\ quote = NoQuote
    /\ instructions = NoInstructions
    /\ tx = NoTx
    /\ sent = <<>>
    /\ balanceReads = 0
    /\ lastError = NoErr
    /\ origErr = NoErr
    /\ result = NoResult
    /\ built = NoBuilt
    /\ quoteResp = NoQuoteResp
    /\ got = NoGot
    /\ response = NoResponse
    /\ ledgerTables = Tables
    /\ blockhashFetches = 0
    /\ frames = <<>>

\* amounts on the command line, in tenths of a lamport: 0.002, 0.0020000005,
\* 0.00207, 0.00208 and 0.003 SOL
AmountInputs == SolAmounts \cup ShortProducts \cup {30000000}

\* what getParsedAccountInfo(tokenMint) answers: the parsed mint with its
\* decimals, or an account that is no token mint
ParsedMint(d) == [parsed |-> TRUE, decimals |-> d]
NotAMint == [parsed |-> FALSE, decimals |-> 0]
TokenInfos == {ParsedMint(6), ParsedMint(9), NotAMint}

\* output amounts the aggregator may quote, in the token's smallest unit
OutAmounts == {7, 999999, 1000000, 1500000}

DefaultDecimals == 9

\* lines 84-89: let tokenDecimals = 9, replaced by the parsed mint's decimals
tokenDecimalsOf(info) == IF info.parsed THEN info.decimals ELSE DefaultDecimals

RECURSIVE Pow10(_)
Pow10(n) == IF n = 0 THEN 1 ELSE 10 * Pow10(n - 1)

\* line 109: parseFloat(result.outputAmount) / Math.pow(10, tokenDecimals),
\* the quotient held as numerator and denominator
tokensReceivedOf(outputAmount, tokenDecimals) ==
    [num |-> outputAmount.v, den |-> Pow10(tokenDecimals)]

NoTokens == [num |-> 0, den |-> 0]

InitAmounts ==
    /\ script = "fixed"
    /\ variant = "payV1"
    /\ \E a \in ArgsOf("fixed", "payV1"), x \in AmountInputs :
          /\ a.feeWalletKey = Cred("base58", "K1", 64)
          /\ a.platformWalletKey = Cred("base58", "K2", 64)
          /\ args = [a EXCEPT !.solAmount = x]
    /\ funderBal = 5000000
    /\ pc = "a_decimals"
    /\ initialBal = funderBal
    /\ solAmount = args.solAmount
    /\ pipelineIdle
    /\ \E info \in TokenInfos :
          call = [tokenInfo |-> info, tokenDecimals |-> DefaultDecimals,
                  tokensReceived |-> NoTokens]

\* lines 84-89 / 193-198
ReadTokenDecimals ==
    /\ pc = "a_decimals"
    /\ call' = [call EXCEPT !.tokenDecimals = tokenDecimalsOf(call.tokenInfo)]
    /\ pc' = "a_swap"
    /\ UNCHANGED <<script, variant, args, funderBal, initialBal, solAmount, pipeVars,
                   result, built, quoteResp, got, response, ledgerVars, frames>>

\* lines 92-100 / 201-209: executePaymentAsSwap asks for a quote of
\* Math.floor(solAmount * 1e9) lamports (jupiter.js 56-62) and returns the
\* quote's amounts; the aggregator has no route to an account that is no mint
SwapForAmounts ==
    /\ pc = "a_swap"
    /\ quoteReqs' = Append(quoteReqs, QuoteRequest(0))
    /\ IF ~call.tokenInfo.parsed
       THEN /\ lastError' = Err("other", "quote")
            /\ result' = Failure(retryError(lastError'))
            /\ pc' = "a_done"
            /\ quote' = quote
       ELSE \E o \in OutAmounts :
            /\ quote' = [inAmount |-> JsString(toLamports(solAmount)),
                         outAmount |-> JsString(o), maxAccounts |-> 0]
            /\ result' = Success(quote')
            /\ pc' = "a_report"
            /\ lastError' = lastError
    /\ UNCHANGED <<script, variant, args, funderBal, initialBal, solAmount, attempt,
                   sleeps, parses, tier, swapReqs, instructions, tx, sent, balanceReads,
                   origErr, built, quoteResp, got, response, ledgerVars, frames, call>>

\* lines 108-109 / 217-218
ReportAmounts ==
    /\ pc = "a_report"
    /\ call' = [call EXCEPT !.tokensReceived =
                    tokensReceivedOf(result.outAmount, call.tokenDecimals)]
    /\ pc' = "a_done"
    /\ UNCHANGED <<script, variant, args, funderBal, initialBal, solAmount, pipeVars,
                   result, built, quoteResp, got, response, ledgerVars, frames>>

NextAmounts ==
    \/ ReadTokenDecimals
    \/ SwapForAmounts
    \/ ReportAmounts

SpecAmounts == InitAmounts /\ [][NextAmounts]_vars

(***************************************************************************)
(* retry(fn, maxRetries, baseDelay) of utils/solana.js 126-143 around any  *)
(* fn.  call.plan[k] says whether the k-th invocation of fn returns (its    *)
(* value is k) or throws an Error of some kind (whose message names k).    *)
(***************************************************************************)
FnPlans == [1..MaxRetriesArg -> {"value"} \cup ErrKinds]

InitRetry ==
    /\ script = "lib"
    /\ variant = "payV1"
    /\ args \in {a \in ArgsOf("lib", "payV1") :
                    /\ a.feeWalletKey = Cred("base58", "K1", 64)
                    /\ a.platformWalletKey = Cred("base58", "K2", 64)
                    /\ a.solAmount = 20000000}
    /\ funderBal = 0
    /\ pc = "r_loop"
    /\ initialBal = 0
    /\ solAmount = 0
    /\ pipelineIdle
    /\ \E plan \in FnPlans : call = [plan |-> plan, invoked |-> <<>>, returned |-> 0]

\* lines 129-139: one turn of the loop, and line 142 when it was the last
RetryIteration ==
    /\ pc = "r_loop" /\ attempt < args.maxRetries
    /\ LET k == attempt + 1 IN
       IF call.plan[k] = "value"
       THEN /\ call' = [call EXCEPT !.invoked = Append(@, k), !.returned = k]
            /\ Finish([NoResult EXCEPT !.status = "success", !.attempt = attempt])
            /\ UNCHANGED <<lastError, sleeps, attempt>>
       ELSE /\ call' = [call EXCEPT !.invoked = Append(@, k)]
            /\ lastError' = Err(call.plan[k], "fn")
            /\ IF retryAgain(attempt)
               THEN /\ sleeps' = Append(sleeps, retryDelay(attempt))
                    /\ attempt' = attempt + 1
                    /\ UNCHANGED <<pc, result>>
               ELSE /\ Finish(Failure(retryError(lastError')))
                    /\ UNCHANGED <<sleeps, attempt>>
    /\ UNCHANGED <<script, variant, args, funderBal, initialBal, solAmount, parses, tier,
                   quoteReqs, swapReqs, quote, instructions, tx, sent, balanceReads,
                   origErr, built, quoteResp, got, response, frames, ledgerVars>>

\* maxRetries <= 0: the loop body never runs and line 142 reads .message of
\* undefined, a TypeError
RetryWithoutAttempt ==
    /\ pc = "r_loop" /\ attempt >= args.maxRetries
    /\ Finish(Failure(Err("other", "retry_no_attempt")))
    /\ UNCHANGED <<script, variant, args, funderBal, initialBal, solAmount, pipeVars,
                   built, quoteResp, got, response, ledgerVars, frames, call>>

NextRetry ==
    \/ RetryIteration
    \/ RetryWithoutAttempt

SpecRetry == InitRetry /\ [][NextRetry]_vars

(***************************************************************************)
(* distribute-sol.js main (with transferSol of utils/solana.js) and its    *)
(* silent revision, which builds the two transfers inline.  Amounts are    *)
(* held in tenths of a lamport, as solAmount is.                           *)
(***************************************************************************)
DistributeScripts == {"distribute", "distributeSilent"}

\* -0.000000001, 0, 0.0001, 0.000100001 and 0.002 SOL
DistributeAmounts == {-10, 0, 1000000, 1000010, 20000000}
DistributeBalances == {3000000, 5000000}

\* 0.0001 SOL
TransferThreshold == 1000000

aboveZero(a) == a > 0

\* distribute-sol.js 67 and 95: if (parsedAmount > 0.0001)
aboveThreshold(a) == a > TransferThreshold

Recipients == <<"platform", "creator">>

amountOf(r) == IF r = "platform" THEN call.platformAmount ELSE call.creatorAmount

NoReply == [success |-> "none", transferCount |-> 0, totalTransferred |-> 0]
ErrorReply == [success |-> "false", transferCount |-> 0, totalTransferred |-> 0]

RECURSIVE SumAmounts(_)
SumAmounts(rs) == IF rs = <<>> THEN 0 ELSE rs[1].amount + SumAmounts(Tail(rs))

\* distribute-sol.js 122 and 130-138: results.reduce(...), results.length
SuccessReply(results) ==
    [success |-> "true", transferCount |-> Len(results),
     totalTransferred |-> SumAmounts(results)]

\* the transaction of one transfer as handed to sendRawTransaction: solana.js
\* 70-96 with feePayer = platformWalletKey, part_005 56-77 and 92-113
Transfer(r, accepted) ==
    [recipient |-> r, amount |-> amountOf(r), lamports |-> toLamports(amountOf(r)),
     from |-> feeWallet, feePayer |-> platformWallet,
     signatures |-> {platformWallet, feeWallet},
     accepted |-> accepted, confirm |-> "none", err |-> FALSE, landed |-> FALSE]

InitDistribute ==
    /\ script \in DistributeScripts
    /\ variant = "payV1"
    /\ args \in {a \in ArgsOf("lib", "payV1") :
                    a.solAmount = 20000000 /\ a.maxRetries = DefaultMaxRetries}
    /\ funderBal \in DistributeBalances
    /\ pc = "d_main"
    /\ initialBal = 0
    /\ solAmount = 0
    /\ pipelineIdle
    /\ \E pa \in DistributeAmounts, ca \in DistributeAmounts :
          call = [platformAmount |-> pa, creatorAmount |-> ca, turn |-> 1,
                  results |-> <<>>, submitted |-> <<>>, reply |-> NoReply]

distributeRest == <<script, variant, args, solAmount, pipeVars, result, built, quoteResp,
                    got, response, ledgerVars, frames>>

\* main threw: executeWithErrorHandling prints the error response and exits
DistributeFails ==
    /\ pc' = "d_exit"
    /\ call' = [call EXCEPT !.reply = ErrorReply]

\* distribute-sol.js 36-63, part_005 30-49: validation, key parsing, first
\* getBalance
DistributeStart ==
    /\ pc = "d_main"
    /\ IF \/ call.platformAmount < 0 \/ call.creatorAmount < 0
          \/ feeWallet = Invalid \/ platformWallet = Invalid
       THEN DistributeFails /\ initialBal' = initialBal
       ELSE \/ DistributeFails /\ initialBal' = initialBal
            \/ /\ initialBal' = funderBal
               /\ pc' = "d_send"
               /\ call' = call
    /\ UNCHANGED <<funderBal, distributeRest>>

\* the step after recipient number call.turn is dealt with
DistributeAdvance(c) ==
    IF c.turn < Len(Recipients)
    THEN pc' = "d_send" /\ call' = [c EXCEPT !.turn = c.turn + 1]
    ELSE pc' = "d_final" /\ call' = c

\* distribute-sol.js 67-76 / 95-104 with transferSol up to sendRawTransaction
\* (solana.js 70-96); part_005 55-77 / 91-113
DistributeSend ==
    /\ pc = "d_send"
    /\ LET r == Recipients[call.turn] IN
       IF ~aboveThreshold(amountOf(r))
       THEN DistributeAdvance(call)
       ELSE \/ DistributeFails
            \/ /\ pc' = "d_exit"
               /\ call' = [call EXCEPT !.submitted = Append(@, Transfer(r, FALSE)),
                                       !.reply = ErrorReply]
            \/ /\ funderBal >= toLamports(amountOf(r))
               /\ pc' = "d_confirm"
               /\ call' = [call EXCEPT !.submitted = Append(@, Transfer(r, TRUE))]
    /\ UNCHANGED <<funderBal, initialBal, distributeRest>>

\* confirmTransaction (solana.js 97, part_005 78 / 114), results.push, and in
\* distribute-sol.js the getBalance of lines 88 / 116
DistributeConfirm ==
    /\ pc = "d_confirm"
    /\ LET n == Len(call.submitted)
           t == call.submitted[n]
           pushed(c) == [c EXCEPT !.results =
                            Append(@, [recipient |-> t.recipient, amount |-> t.amount])]
           resolved(c) ==
               \/ DistributeAdvance(pushed(c))
               \/ /\ script = "distribute"
                  /\ pc' = "d_exit"
                  /\ call' = [pushed(c) EXCEPT !.reply = ErrorReply]
       IN  \/ /\ funderBal' = funderBal - t.lamports
              /\ resolved([call EXCEPT !.submitted[n].confirm = "ok",
                                       !.submitted[n].landed = TRUE])
           \/ /\ funderBal' = funderBal
              /\ resolved([call EXCEPT !.submitted[n].confirm = "ok",
                                       !.submitted[n].err = TRUE])
           \/ \E landed \in BOOLEAN :
                 /\ funderBal' = IF landed THEN funderBal - t.lamports ELSE funderBal
                 /\ pc' = "d_exit"
                 /\ call' = [call EXCEPT !.submitted[n].confirm = "timeout",
                                         !.submitted[n].landed = landed,
                                         !.reply = ErrorReply]
    /\ UNCHANGED <<initialBal, distributeRest>>

\* distribute-sol.js 122-138, part_005 126-137: last getBalance and the response
DistributeFinish ==
    /\ pc = "d_final"
    /\ \/ DistributeFails
       \/ /\ pc' = "d_exit"
          /\ call' = [call EXCEPT !.reply = SuccessReply(call.results)]
    /\ UNCHANGED <<funderBal, initialBal, distributeRest>>

NextDistribute ==
    \/ DistributeStart
    \/ DistributeSend
    \/ DistributeConfirm
    \/ DistributeFinish

SpecDistribute == InitDistribute /\ [][NextDistribute]_vars

(***************************************************************************)
(* swap-asset-vault-to-holding-simple.js: main swaps the Asset Vault's SOL *)
(* (step 1, JupiterSimpleSwap.executeSwap) and then moves all of the      *)
(* vault's tokens to the holding wallet (step 2, transferAllTokens).  The  *)
(* Asset Vault is the swap's wallet, so funderBal is its balance.  call    *)
(* holds the vault's tokens at the start, the transfers handed to          *)
(* sendRawTransaction, what transferAllTokens returned and the response.   *)
(***************************************************************************)
HoldingBalances == {3000000, 4000000, 5000000}
HoldingTokens == {0, 5}

\* line 109: RENT_EXEMPTION = 0.0025 SOL, and line 117: the least amount swapped
HOLDING_RENT_EXEMPTION == 2500000
HOLDING_MIN_LAMPORTS == 1000000

\* line 110: Math.max(0, initialAssetVaultBalance / 1e9 - RENT_EXEMPTION), in lamports
actualSolAmount(bal) ==
    IF bal - HOLDING_RENT_EXEMPTION > 0 THEN bal - HOLDING_RENT_EXEMPTION ELSE 0

NotReturned == [returned |-> FALSE, success |-> FALSE]
\* transferAllTokens' two return values, lines 381-388 and 390-396
TransferReturned(ok) == [returned |-> TRUE, success |-> ok]

\* the token transfer handed to sendRawTransaction (lines 349-373): all of the
\* source account's tokens, fee payer the Platform Wallet, both signatures
TokenTransfer(amount, accepted) ==
    [amount |-> amount, feePayer |-> platformWallet,
     signatures |-> {platformWallet, feeWallet},
     accepted |-> accepted, confirm |-> "none", err |-> FALSE, landed |-> FALSE]

\* the tokens of the vault's token account after the first n submitted swaps
RECURSIVE vaultTokens(_)
vaultTokens(n) == IF n = 0 THEN call.tokens ELSE sent[n].received + vaultTokens(n - 1)

InitHolding ==
    /\ script = "holding"
    /\ variant = "simple"
    /\ args \in {a \in ArgsOf("holding", "simple") : a.solAmount = 20000000}
    /\ funderBal \in HoldingBalances
    /\ pc = "h_main"
    /\ initialBal = 0
    /\ solAmount = 0
    /\ pipelineIdle
    /\ \E t \in HoldingTokens :
          call = [tokens |-> t, transfers |-> <<>>, transferResult |-> NotReturned,
                  reply |-> "none"]

holdingRest == <<script, variant, args, attempt, sleeps, parses, tier, quoteReqs,
                 swapReqs, quote, instructions, tx, sent, balanceReads, lastError,
                 origErr, result, built, quoteResp, got, response, frames, ledgerVars>>

\* main threw: executeWithErrorHandling prints the error response and exits
HoldingFails ==
    /\ pc' = "h_exit"
    /\ call' = [call EXCEPT !.reply = "false"]

\* lines 79-143: arguments, keys, the balances, the amount to swap, the token's
\* decimals and program
HoldingStart ==
    /\ pc = "h_main"
    /\ IF feeWallet = Invalid \/ platformWallet = Invalid
       THEN HoldingFails /\ UNCHANGED <<initialBal, solAmount>>
       ELSE \/ HoldingFails /\ UNCHANGED <<initialBal, solAmount>>
            \/ IF actualSolAmount(funderBal) < HOLDING_MIN_LAMPORTS
               THEN HoldingFails /\ UNCHANGED <<initialBal, solAmount>>
               ELSE /\ initialBal' = funderBal
                    /\ solAmount' = 10 * actualSolAmount(funderBal)
                    /\ pc' = "p_parse"
                    /\ call' = call
    /\ UNCHANGED <<funderBal, holdingRest>>

\* lines 149-175: executeSwap returned, or threw and main rethrows 'Step 1 failed'
HoldingSwapReturned ==
    /\ pc = "done" /\ script = "holding"
    /\ IF result.status = "success"
       THEN pc' = "h_transfer" /\ call' = call
       ELSE HoldingFails
    /\ UNCHANGED <<funderBal, initialBal, solAmount, holdingRest>>

\* line 193 with the mutation that ignores tokenTransferResult.success
stepTwoNeverFailed(r) == FALSE

\* line 193: if (!tokenTransferResult.success)
stepTwoFailed(r) == ~r.success

\* lines 193-196: transferAllTokens returned r to main, which throws 'Step 2
\* failed' or goes on
TransferReturns(c, r) ==
    IF stepTwoFailed(r)
    THEN pc' = "h_exit" /\ call' = [c EXCEPT !.transferResult = r, !.reply = "false"]
    ELSE pc' = "h_final" /\ call' = [c EXCEPT !.transferResult = r]

\* lines 183-191 with transferAllTokens 245-373: the token accounts, the source
\* balance, the transaction and sendRawTransaction; whatever throws is caught
\* at line 390
HoldingTransfer ==
    /\ pc = "h_transfer"
    /\ LET all == vaultTokens(Len(sent)) IN
       IF all = 0
       THEN TransferReturns(call, TransferReturned(FALSE))
       ELSE \/ TransferReturns(call, TransferReturned(FALSE))
            \/ TransferReturns([call EXCEPT !.transfers =
                                   Append(@, TokenTransfer(all, FALSE))],
                               TransferReturned(FALSE))
            \/ /\ pc' = "h_confirm"
               /\ call' = [call EXCEPT !.transfers = Append(@, TokenTransfer(all, TRUE))]
    /\ UNCHANGED <<funderBal, initialBal, solAmount, holdingRest>>

\* transferAllTokens 376-396: confirmTransaction resolves, its result unread, or
\* throws
HoldingTransferConfirm ==
    /\ pc = "h_confirm"
    /\ LET n == Len(call.transfers) IN
       \/ TransferReturns([call EXCEPT !.transfers[n].confirm = "ok",
                                       !.transfers[n].landed = TRUE],
                          TransferReturned(TRUE))
       \/ TransferReturns([call EXCEPT !.transfers[n].confirm = "ok",
                                       !.transfers[n].err = TRUE],
                          TransferReturned(TRUE))
       \/ \E landed \in BOOLEAN :
             TransferReturns([call EXCEPT !.transfers[n].confirm = "timeout",
                                          !.transfers[n].landed = landed],
                             TransferReturned(FALSE))
    /\ UNCHANGED <<funderBal, initialBal, solAmount, holdingRest>>

\* lines 203-239: the final balances and the success response
HoldingFinish ==
    /\ pc = "h_final"
    /\ \/ HoldingFails
       \/ /\ pc' = "h_exit"
          /\ call' = [call EXCEPT !.reply = "true"]
    /\ UNCHANGED <<funderBal, initialBal, solAmount, holdingRest>>

NextHolding ==
    \/ HoldingStart
    \/ PayParse
    \/ PayInitialBalances
    \/ PayGetQuote
    \/ PayGetSwapTransaction
    \/ PayExecuteSwap
    \/ PayConfirm
    \/ PayFinalBalances
    \/ HoldingSwapReturned
    \/ HoldingTransfer
    \/ HoldingTransferConfirm
    \/ HoldingFinish

SpecHolding == InitHolding /\ [][NextHolding]_vars

(***************************************************************************)
(* Properties.                                                             *)
(***************************************************************************)
separateFeePayer ==
    /\ feeWallet # Invalid /\ platformWallet # Invalid
    /\ feeWallet # platformWallet

Landed == {i \in 1..Len(sent) : sent[i].landed}
TimedOut == {i \in 1..Len(sent) : sent[i].confirm = "timeout"}

\* C1: with a separate fee payer, every transaction built for submission or
\* submitted names the platform wallet, never the fee wallet, as its fee payer.
C1_FeePayerIsPlatform ==
    separateFeePayer =>
        /\ \A i \in 1..Len(sent) : sent[i].feePayer = platformWallet
        /\ pc = "c_send" => tx.feePayer = platformWallet

\* C2: every submitted transaction carries the platform wallet's signature, the
\* fee wallet's signature too when the two differ, and every signature its
\* message requires.
C2_BothSignaturesPresent ==
    \A i \in 1..Len(sent) :
        /\ platformWallet \in sent[i].signatures
        /\ feeWallet # platformWallet => feeWallet \in sent[i].signatures
        /\ sent[i].required \subseteq sent[i].signatures

\* C3: when a confirmation wait timed out, the final status is success exactly
\* when the Funder's balance went down by the input amount.
C3_TimeoutResolvedByBalance ==
    (pc = "done" /\ TimedOut # {}) =>
        (result.status = "success" <=> Landed # {})

\* C4: nothing is submitted after a submission whose confirmation timed out,
\* and at most one swap of an invocation debits the Funder.
C4_AtMostOneDebit ==
    /\ \A i \in TimedOut : i = Len(sent)
    /\ Cardinality(Landed) <= 1

limitsTried == [i \in 1..Len(quoteReqs) |-> quoteReqs[i].maxAccounts]

IsPrefix(a, b) == Len(a) <= Len(b) /\ \A i \in 1..Len(a) : a[i] = b[i]

\* C5: after the unconstrained submission failed with a size error the pipeline
\* is re-run from the quote with limits 40, 30, 25 in that order, a limit being
\* tried only after the previous run failed with a size error, and the first
\* success is returned; a size error of a submission never ends the call while
\* a limit is left to try.
C5_FallbackTiersInOrder ==
    (variant = "custom" /\ args.maxAccounts = 0) =>
        /\ IsPrefix(limitsTried, <<0, 40, 30, 25>>)
        /\ tier <= 3
        /\ Len(quoteReqs) <= tier + 1
        /\ pc \in {"c_instr", "c_build", "c_send", "c_confirm"} =>
              Len(quoteReqs) = tier + 1
        /\ tier >= 1 => /\ origErr.kind = "size" /\ origErr.tier = 0
                        /\ origErr.at \in {"send", "confirm"}
                        /\ sent[1].tier = 0 /\ sent[1].confirm # "ok"
        /\ (tier >= 2 /\ pc # "done") => lastError.kind = "size" /\ lastError.tier = tier - 1
        /\ (tier = 1 /\ pc # "done") => lastError = origErr
        /\ result.status = "success" =>
              /\ pc = "done" /\ result.tier = tier
              /\ Len(sent) >= 1 /\ Len(sent) <= Len(quoteReqs)
              /\ sent[Len(sent)].tier = tier
              /\ \A i \in 1..Len(sent) : (sent[i].confirm = "ok") <=> (i = Len(sent))
        /\ (pc = "done" /\ result.status = "error" /\ result.error.kind = "size") =>
              result.error.at \notin {"send", "confirm"}

C5_Witness ==
    /\ variant = "custom" /\ pc = "done" /\ result.status = "success"
    /\ limitsTried = <<0, 40, 30>>
    /\ Len(sent) = 3

allTiersTooLarge ==
    /\ variant = "custom" /\ pc = "done"
    /\ tier = 3 /\ lastError.kind = "size" /\ lastError.tier = 3

\* C6 as stated: when every tier failed with a size error the call fails with
\* the size error of the last tier tried.
C6_LastTierErrorSurfaces ==
    allTiersTooLarge =>
        /\ result.status = "error" /\ result.error.kind = "size"
        /\ result.error.tier = 3 /\ result.error.cause = lastError.at

\* C6 amended: when every tier failed with a size error the call fails with a
\* size error that carries the error of the first, unconstrained submission;
\* the size error never becomes a success.
C6_OriginalErrorSurfaces ==
    allTiersTooLarge =>
        /\ result.status = "error" /\ result.error.kind = "size"
        /\ result.error.at = "exhausted"
        /\ result.error.tier = 0 /\ result.error.cause = origErr.at
        /\ origErr.tier = 0 /\ origErr.at \in {"send", "confirm"}

C6_Witness == allTiersTooLarge /\ lastError.at = "quote" /\ Len(sent) = 3

\* C7: the retried pipeline starts at most maxRetries attempts, each from the
\* quote step; the waits are 1000 ms, 2000 ms, ... one before each attempt after
\* the first and none after the last; after the last attempt failed the failure
\* of that attempt is thrown.
C7_BoundedExponentialRetry ==
    (isPay /\ args.maxRetries >= 1) =>
        /\ attempt + 1 <= args.maxRetries
        /\ Len(quoteReqs) <= attempt + 1
        /\ Len(sent) <= Len(quoteReqs)
        /\ Len(sleeps) = attempt
        /\ Len(sleeps) <= args.maxRetries - 1
        /\ \A k \in 1..Len(sleeps) :
              sleeps[k] = IF k = 1 THEN 1000 ELSE 2 * sleeps[k - 1]
        /\ (pc = "done" /\ result.status = "error" /\ parses > 0) =>
              /\ attempt = args.maxRetries - 1
              /\ result.error.at = "retry"
              /\ result.error.attempt = attempt
              /\ result.error.cause = lastError.at

C7_Witness ==
    /\ isPay /\ pc = "done" /\ result.status = "error"
    /\ args.maxRetries = 3 /\ sleeps = <<1000, 2000>> /\ Len(quoteReqs) = 3

malformedCredential == feeWallet = Invalid \/ platformWallet = Invalid

\* C8: with a malformed credential executePaymentAsSwap fails in its first
\* attempt: one parse of the malformed credential, no wait, no retry and no
\* aggregator or ledger request.
C8_MalformedCredentialFailsFast ==
    (isPay /\ script = "lib" /\ malformedCredential /\ args.maxRetries >= 1
       /\ pc = "done") =>
        /\ result.status = "error"
        /\ attempt = 0
        /\ sleeps = <<>>
        /\ parses = IF feeWallet = Invalid THEN 1 ELSE 2
        /\ quoteReqs = <<>> /\ swapReqs = <<>> /\ sent = <<>>

insufficientBalance ==
    IF script = "auto" /\ args.auto
    THEN initialBal - RENT_EXEMPTION_LAMPORTS < MIN_AUTO_LAMPORTS
    ELSE initialBal * 10 < args.solAmount

\* C9: a swap script started with too small a Funder balance fails before any
\* quote is requested or transaction submitted, without a retry.
C9_InsufficientBalanceFailsFast ==
    (script # "lib" /\ pc # "main" /\ insufficientBalance) =>
        /\ pc = "done" /\ result.status = "error"
        /\ quoteReqs = <<>> /\ sent = <<>> /\ attempt = 0 /\ sleeps = <<>>

\* C10: the built instruction list is the compute-budget instructions, the
\* setup instructions in the order received, the token-ledger instruction if
\* present, the swap instruction, the cleanup instruction if present; nothing
\* else, nothing twice, and a transaction is built only with a swap instruction.
C10_InstructionOrder ==
    LET r == instructions
        L == built.tx.instructions
        cb == r.computeBudgetInstructions.items
        su == r.setupInstructions.items
        tl == IF r.tokenLedgerInstruction.defined THEN 1 ELSE 0
        cl == IF r.cleanupInstruction.defined THEN 1 ELSE 0
        main == Len(cb) + Len(su) + tl + 1
    IN  /\ built.status = "built" =>
            /\ r.swapInstruction.defined
            /\ Len(L) = main + cl
            /\ \A k \in 1..Len(L) : L[k].form = "native"
            /\ \A k \in 1..Len(cb) : L[k].id = cb[k].id
            /\ \A k \in 1..Len(su) : L[Len(cb) + k].id = su[k].id
            /\ tl = 1 => L[main - 1].id = r.tokenLedgerInstruction.items[1].id
            /\ L[main].id = r.swapInstruction.items[1].id
            /\ cl = 1 => L[main + 1].id = r.cleanupInstruction.items[1].id
        /\ built.status = "throws" => ~r.swapInstruction.defined

C10_Witness ==
    /\ built.status = "built"
    /\ Len(built.tx.instructions) = 2 * MaxSetup + 3

positive(x) == x.t \in {"string", "number"} /\ x.v > 0

\* C11: getQuote of every class returns the quote only if the response holds an
\* input amount and an output amount that are strictly positive, and throws an
\* invalid-quote error for every other response it received.
C11_QuoteValidated ==
    pc = "gotQuote" =>
        IF quoteResp.ok /\ positive(quoteResp.body.inAmount)
                        /\ positive(quoteResp.body.outAmount)
        THEN got.status = "returned" /\ got.quote = quoteResp.body
        ELSE /\ got.status = "thrown"
             /\ quoteResp.ok => got.error = "invalid_quote"

\* C12: no swap-instructions / swap request is issued for a quote whose
\* outAmount is missing, and no transaction is built or submitted from one.
C12_NoRequestWithoutOutAmount ==
    /\ \A i \in 1..Len(swapReqs) : swapReqs[i].quote.outAmount.t # "undefined"
    /\ pc \in {"c_build", "c_send", "c_confirm", "p_execute", "p_confirm"} =>
          quote.outAmount.t # "undefined"

\* C13: in the payments-as-swap pipelines every swap-instructions / swap request
\* names the holding account derived from the caller's destination address,
\* never one owned by the Funder, on every attempt and fallback tier.
C13_DestinationIsCallerSupplied ==
    variant \in {"custom", "payV1", "payV2"} =>
        \A i \in 1..Len(swapReqs) :
            /\ swapReqs[i].destinationTokenAccount.owner = args.assetVaultPubkey
            /\ swapReqs[i].destinationTokenAccount.offCurve
            /\ swapReqs[i].destinationTokenAccount.owner # feeWallet
            /\ swapReqs[i].userPublicKey = feeWallet

C13_Witness ==
    /\ variant = "payV2" /\ attempt = 2 /\ Len(swapReqs) = 3
    /\ swapReqs[3].destinationTokenAccount.owner = "V1"

RECURSIVE TokensReceived(_)
TokensReceived(n) == IF n = 0 THEN 0 ELSE sent[n].received + TokensReceived(n - 1)

\* C14: the input and output amounts of a success response are the differences
\* of the balances read before and after the swap: the Funder's decrease and
\* the tokens the destination received.
C14_ReportedAmountsAreDeltas ==
    response.success = "true" =>
        /\ response.inputAmount.v = initialBal - funderBal
        /\ response.outputAmount.v = TokensReceived(Len(sent))

\* C15: in a success response that reports the Funder's balance delta, the
\* delta is never positive and equals minus the consumed input amount within
\* the fee tolerance, whatever else credited the Funder in between.
C15_FunderDeltaMatchesInput ==
    (response.success = "true" /\ "feeWalletSpent" \in response.keys) =>
        LET delta == 0 - response.feeWalletSpent
            off == delta + toLamports(solAmount)
        IN  /\ delta <= 0
            /\ off <= FeeTolerance /\ 0 - off <= FeeTolerance

\* keys under which the scripts' responses report balances
BalanceKeys == {"feeWalletSpent", "platformWalletFeesSpent", "initialBalance",
                "finalBalance", "balanceChange"}

\* C16: every failure response carries the classification of the terminal
\* error and the last known balances of the Funder and the FeePayer.
C16_FailureCarriesBalances ==
    response.success = "false" =>
        /\ {"error", "name"} \subseteq response.keys
        /\ response.keys \cap BalanceKeys # {}

outcomeOf(e) ==
    CASE ~e.accepted -> "Rejected"
      [] e.confirm = "none" -> "Submitted"
      [] e.confirm = "ok" -> "Confirmed"
      [] OTHER -> "TimedOut"

submissionStep ==
    /\ Len(sent') >= Len(sent)
    /\ Len(sent') <= Len(sent) + 1
    /\ Len(sent') = Len(sent) + 1 =>
          /\ tx.kind # Null
          /\ outcomeOf(sent'[Len(sent')]) \in {"Submitted", "Rejected"}
    /\ \A i \in 1..Len(sent) :
          \/ sent'[i] = sent[i]
          \/ /\ outcomeOf(sent[i]) = "Submitted"
             /\ outcomeOf(sent'[i]) \in {"Confirmed", "TimedOut"}
             /\ i = Len(sent)

oneOutcome ==
    /\ result.status # "none" => result' = result /\ sent' = sent
    /\ result'.status # "none" => pc' = "done"

successAfterSubmission ==
    result.status = "success" =>
        /\ Len(sent) >= 1
        /\ outcomeOf(sent[Len(sent)]) = "Confirmed"

\* C17: a submission only moves Built -> Submitted -> Confirmed / Rejected /
\* TimedOut; every invocation eventually ends in one outcome, success or error,
\* that never changes afterwards; success comes only after a confirmed
\* submission of the invocation.
C17_OneTerminalOutcome ==
    /\ [][submissionStep /\ oneOutcome]_vars
    /\ []successAfterSubmission
    /\ <>[](pc = "done" /\ result.status \in {"success", "error"})

C17_Witness ==
    /\ pc = "done" /\ result.status = "success" /\ variant = "payV1"
    /\ attempt = 2 /\ Len(sent) = 3 /\ sent[1].confirm = "timeout" /\ ~sent[2].accepted

\* C18: an instruction / swap response with an error field ends the invocation
\* with a route-build failure carrying the aggregator's message: nothing is
\* built or submitted from it and no further request follows it.
C18_RouteBuildFailureNotRetried ==
    \A i \in 1..Len(swapReqs) :
        swapReqs[i].answer = "error_field" =>
            /\ i = Len(swapReqs)
            /\ tx = NoTx
            /\ pc = "done" /\ result.status = "error"
            /\ "route_build" \in {result.error.at, result.error.cause}

unresolvedTable(r) ==
    /\ r.addressLookupTableAddresses.defined
    /\ \E i \in 1..Len(r.addressLookupTableAddresses.items) :
          r.addressLookupTableAddresses.items[i] \notin ledgerTables

\* C19: a route that references a lookup-table address without an account on
\* the ledger is refused by the builder: nothing is compiled or signed for it.
C19_StaleRouteRejected ==
    (pc = "assembled" /\ unresolvedTable(instructions)) =>
        /\ built.status = "throws"
        /\ built.tx = NoTx

isSuffix(a, b) ==
    /\ Len(a) <= Len(b)
    /\ \A i \in 1..Len(a) : a[i] = b[Len(b) - Len(a) + i]

builtHere(t) == t.calls # <<>>

\* C20: every transaction built here fetched its blockhash after its
\* lookup-table read and signed right after the fetch, with no network call
\* between; no two submissions of an invocation carry the same blockhash, and
\* each carries the one fetched last before it was signed.
C20_FreshBlockhashPerAttempt ==
    /\ builtHere(tx) =>
          /\ isSuffix(<<"getLatestBlockhash", "sign">>, tx.calls)
          /\ \A i \in 1..(Len(tx.calls) - 2) : tx.calls[i] # "getLatestBlockhash"
          /\ tx.blockhash = blockhashFetches
    /\ \A i \in 1..Len(sent) :
          builtHere(sent[i]) =>
              /\ isSuffix(<<"getLatestBlockhash", "sign">>, sent[i].calls)
              /\ sent[i].blockhash >= 1
              /\ sent[i].blockhash <= blockhashFetches
              /\ \A j \in 1..Len(sent) : i < j => sent[i].blockhash < sent[j].blockhash

C20_Witness ==
    /\ variant = "custom" /\ Len(sent) = 2 /\ tier = 1
    /\ sent[1].calls = <<"getMultipleAccountsInfo", "getLatestBlockhash", "sign">>
    /\ sent[1].blockhash = 1 /\ sent[2].blockhash = 2
    /\ sent[2].confirm = "ok"

samePrincipal == feeWallet # Invalid /\ feeWallet = platformWallet

\* C23 as stated: with Funder and FeePayer the same principal every submitted
\* transaction is valid and was signed with one signer, that principal once.
C23_OneSignerWhenSame ==
    samePrincipal =>
        \A i \in 1..Len(sent) :
            /\ sent[i].required \subseteq sent[i].signatures
            /\ sent[i].signers = <<feeWallet>>

\* C23 amended: with Funder and FeePayer the same principal every submitted
\* transaction names that principal as fee payer, requires its signature only
\* and carries exactly that one signature; the signer list handed to sign()
\* holds nobody else, but holds the principal twice wherever the code signs
\* with [platformWallet, feeWallet].
C23_OneSignatureWhenSame ==
    samePrincipal =>
        \A i \in 1..Len(sent) :
            /\ sent[i].feePayer = feeWallet
            /\ sent[i].required = {feeWallet}
            /\ sent[i].signatures = {feeWallet}
            /\ sent[i].signers = IF variant = "payV2" THEN <<feeWallet>>
                                 ELSE <<feeWallet, feeWallet>>

C23_Witness ==
    /\ samePrincipal /\ variant = "custom" /\ result.status = "success"
    /\ Len(sent) = 1 /\ sent[1].signers = <<"K1", "K1">> /\ sent[1].signatures = {"K1"}

wellFormed(c) == c.enc \in {"base58", "json"} /\ c.len = 64

\* C24: a key given as a base58 string or as a JSON numeric array parses to the
\* same principal, so credential parsing fails only for a credential that is
\* well formed under neither encoding.
C24_BothEncodingsAccepted ==
    /\ (parses >= 1 /\ wellFormed(args.feeWalletKey)) =>
          feeWallet = args.feeWalletKey.key
    /\ (parses >= 2 /\ wellFormed(args.platformWalletKey)) =>
          platformWallet = args.platformWalletKey.key
    /\ lastError.at = "parse" =>
          ~(wellFormed(args.feeWalletKey) /\ wellFormed(args.platformWalletKey))

\* C25: a request names a holding account derived with the off-curve-owner
\* variant only if the caller asked for it with an argument of the call.
C25_OffCurveOnlyOnRequest ==
    \A i \in 1..Len(swapReqs) :
        swapReqs[i].destinationTokenAccount.offCurve =>
            /\ "allowOwnerOffCurve" \in DOMAIN args
            /\ args["allowOwnerOffCurve"]

ownFrame(i) ==
    LET f == frames[i] IN
    /\ f.quote.for \in {0, i}
    /\ f.quote.for = i => f.quote.inAmount = toLamports(f.solAmount)
    /\ f.request.by \in {0, i}
    /\ f.request.by = i => f.request.quote = f.quote /\ f.quote.for = i
    /\ f.blockhash.by \in {0, i}
    /\ f.tx.by \in {0, i}
    /\ f.tx.by = i => /\ f.tx.quote = f.quote /\ f.request.by = i
                      /\ f.tx.blockhash = f.blockhash.value
    /\ f.result.status = "success" =>
          /\ f.tx.by = i
          /\ f.result.inputAmount = toLamports(f.solAmount)
          /\ f.result.outputAmount = f.quote.outAmount
    /\ f.pc \in {"start", "quote"} => f.quote = NoCallQuote /\ f.tx = NoCallTx
    /\ f.pc = "start" => f.result = NoCallResult

\* C26: of two concurrent calls each uses only the quote issued to it, the
\* blockhash it fetched, the transaction it built and its own snapshots; its
\* requests and its result are made of its own arguments and answers, and the
\* two calls never carry the same blockhash.
C26_NoSharedState ==
    (pc = "concurrent") =>
        /\ \A i \in Invocations : ownFrame(i)
        /\ (frames[1].tx.blockhash # 0 /\ frames[2].tx.blockhash # 0) =>
              frames[1].tx.blockhash # frames[2].tx.blockhash

C26_Witness ==
    /\ pc = "concurrent" /\ variant = "custom"
    /\ frames[1].result.status = "success" /\ frames[2].result.status = "success"
    /\ frames[1].solAmount = 20000000 /\ frames[2].solAmount = 30000000
    /\ frames[1].quote.outAmount = 7 /\ frames[2].quote.outAmount = 9
    /\ frames[2].tx.blockhash = 1 /\ frames[1].tx.blockhash = 2

\* C27: executeWithErrorHandling prints exactly one JSON response and exits;
\* the exit code is 0 exactly when fn did not throw, the success field agrees
\* with the exit code, and a thrown error is in the error field.
C27_OneResponseAndExitCode ==
    (pc = "response" /\ call.exitCode # NotExited) =>
        /\ Len(call.emitted) = 1
        /\ (call.exitCode = "0") <=> ~call.fn.threw
        /\ (call.emitted[1]["success"] = "true") <=> (call.exitCode = "0")
        /\ call.fn.threw => call.emitted[1]["error"] = call.fn.error.message

\* C28: createSuccessResponse(data) has success true for every data, and
\* createErrorResponse(error, details) has success false for every error and
\* details.
C28_SuccessFieldFixed ==
    (pc = "response" /\ call.created # <<>>) =>
        /\ call.created[1]["success"] = "true"
        /\ call.created[2]["success"] = "false"

shouldThrow(params) ==
    \/ ~present(params.feeWalletKey) \/ ~present(params.assetVaultPubkey)
    \/ ~present(params.tokenMint) \/ ~present(params.platformWalletKey)
    \/ params.solAmount.t # "number"
    \/ params.solAmount.v <= 0
    \/ params.feeWalletKey.enc # "base58" \/ params.feeWalletKey.len # 64
    \/ params.platformWalletKey.enc # "base58" \/ params.platformWalletKey.len # 64
    \/ params.assetVaultPubkey.enc # "base58" \/ params.assetVaultPubkey.len # 32
    \/ params.tokenMint.enc # "base58" \/ params.tokenMint.len # 32

\* C29: validateSwapParams throws when a parameter is missing, when solAmount
\* is not greater than 0 or when a key or address does not parse, and returns
\* otherwise; it sends no request and changes no state.
C29_ValidateThrowsOrReturns ==
    (pc = "validated") =>
        /\ shouldThrow(call.params) <=> call.outcome # "returned"
        /\ quoteReqs = <<>> /\ swapReqs = <<>> /\ sent = <<>>
        /\ balanceReads = 0 /\ parses = 0 /\ blockhashFetches = 0
        /\ funderBal = 0 /\ tx = NoTx /\ result = NoResult

C29_Witness ==
    /\ pc = "validated"
    /\ call.params.solAmount = JsNumber(-1)
    /\ call.params.feeWalletKey = Cred("base58", "K1", 64)
    /\ call.params.platformWalletKey = Cred("base58", "K1", 64)
    /\ call.params.tokenMint = Cred("base58", "V1", 32)
    /\ call.params.assetVaultPubkey = Cred("base58", "V1", 32)
    /\ call.outcome = "SOL amount must be greater than 0"

C31_AmountsConverted ==
    /\ \A i \in 1..Len(quoteReqs) :
          /\ quoteReqs[i].amount = solAmount \div 10
          /\ quoteReqs[i].amount * 10 <= solAmount
    /\ (pc = "a_done" /\ result.status = "success") =>
          /\ call.tokenInfo.parsed
          /\ call.tokensReceived = [num |-> result.outAmount.v,
                                    den |-> Pow10(call.tokenInfo.decimals)]

\* C32: a success result is returned only when the last submitted transaction
\* was confirmed and its execution on chain carries no error.
C32_SuccessOnlyIfExecuted ==
    result.status = "success" =>
        /\ Len(sent) >= 1
        /\ sent[Len(sent)].confirm = "ok"
        /\ ~sent[Len(sent)].err

\* the request that brought the transaction of the last submission
lastRequest == swapReqs[Len(swapReqs)]

\* C33: an attempt (a tier, for the custom builder) obtains one quote and hands
\* it to that attempt's instruction / swap request and to no other: the quotes
\* of successive requests are successive and each is the newest one, obtained
\* in the same attempt and tier; a success result carries the amounts of the
\* quote behind the last request, made in the attempt whose transaction was
\* confirmed.
C33_QuoteUsedOnceInItsAttempt ==
    /\ Len(quoteReqs) <= attempt + tier + 1
    /\ \A i \in 1..Len(swapReqs) :
          /\ swapReqs[i].quote.id >= 1 /\ swapReqs[i].quote.id <= Len(quoteReqs)
          /\ \A j \in 1..Len(swapReqs) :
                i < j => /\ swapReqs[i].quote.id < swapReqs[j].quote.id
                         /\ <<swapReqs[i].tier, swapReqs[i].attempt>>
                               # <<swapReqs[j].tier, swapReqs[j].attempt>>
    /\ (pc \in {"c_build", "c_send", "c_confirm", "p_execute", "p_confirm", "p_final"}) =>
          /\ lastRequest.quote = quote
          /\ quote.id = Len(quoteReqs)
          /\ lastRequest.tier = tier /\ lastRequest.attempt = attempt
    /\ result.status = "success" =>
          /\ result.inAmount = lastRequest.quote.inAmount
          /\ result.outAmount = lastRequest.quote.outAmount
          /\ lastRequest.quote.id = Len(quoteReqs)
          /\ sent[Len(sent)].tier = lastRequest.tier
          /\ sent[Len(sent)].attempt = lastRequest.attempt
          /\ result.tier = lastRequest.tier /\ result.attempt = lastRequest.attempt

\* a success in the third attempt, after an attempt that failed before its
\* quote and one that failed after its swap request
C33_Witness ==
    /\ result.status = "success" /\ variant = "payV1" /\ attempt = 2
    /\ Len(quoteReqs) = 2 /\ Len(swapReqs) = 2
    /\ swapReqs[1].attempt = 1 /\ swapReqs[2].quote.id = 2

\* the account limits of the tiers up to k
limitsUpTo(k) == {fallbackLimits[j] : j \in 1..k}

\* C34: once a fallback tier has failed with an error that is no size error,
\* the call has ended with that error; no stricter tier was tried and no quote
\* or submission was made after it.
C34_OtherErrorStopsFallback ==
    (variant = "custom" /\ lastError.kind = "other" /\ lastError.tier >= 1) =>
        /\ pc = "done"
        /\ result.status = "error" /\ result.error = lastError
        /\ tier = lastError.tier
        /\ Len(quoteReqs) <= tier + 1
        /\ \A i \in 1..Len(quoteReqs) :
              quoteReqs[i].maxAccounts \in {0} \cup limitsUpTo(tier)
        /\ \A i \in 1..Len(sent) : sent[i].tier <= tier
        /\ \A i \in 1..Len(swapReqs) : swapReqs[i].tier <= tier

C34_Witness ==
    /\ variant = "custom" /\ pc = "done"
    /\ lastError.kind = "other" /\ lastError.tier = 2 /\ lastError.at = "confirm"
    /\ Len(sent) = 3 /\ Len(quoteReqs) = 3

submissionsBounded ==
    /\ tier \in 0..Len(fallbackLimits)
    /\ Len(sent) <= 1 + Len(fallbackLimits)
    /\ Len(quoteReqs) <= 1 + Len(fallbackLimits)
    /\ \A i \in 1..Len(sent) :
          /\ i = 1 => sent[i].tier = 0
          /\ \A j \in 1..Len(sent) : i < j => sent[i].tier < sent[j].tier
    /\ tier >= 1 => Len(sent) >= 1

\* a call that was given an account limit runs once: no fallback starts from it
noNestedFallback ==
    /\ args.maxAccounts # 0 =>
          /\ tier = 0 /\ Len(sent) <= 1 /\ Len(quoteReqs) <= 1
          /\ \A i \in 1..Len(quoteReqs) : quoteReqs[i].maxAccounts = args.maxAccounts
    /\ \A i \in 1..Len(quoteReqs) :
          quoteReqs[i].maxAccounts = (IF args.maxAccounts # 0 THEN args.maxAccounts
                                      ELSE IF i = 1 THEN 0 ELSE fallbackLimits[i - 1])

\* C35: a top-level call of executeSwapWithCustomPayer submits at most four
\* transactions, the first unconstrained and then at most one per limit 40, 30,
\* 25 in that order; a call with an account limit set starts no fallback of
\* its own; every call ends.
C35_BoundedFallbackTerminates ==
    /\ [](submissionsBounded /\ noNestedFallback)
    /\ <>[](pc = "done")

C35_Witness ==
    /\ pc = "done" /\ Len(sent) = 4 /\ sent[4].tier = 3 /\ result.status = "error"
    /\ result.error.at = "exhausted"

\* C36: retry invokes fn once per attempt and not again after an invocation
\* that returned; it returns the value of the first invocation that returns;
\* when all maxRetries invocations threw, the error it throws carries the error
\* of the last one.
C36_RetryFirstSuccessLastError ==
    LET n == Len(call.invoked) IN
    /\ \A k \in 1..n : call.invoked[k] = k /\ (k < n => call.plan[k] # "value")
    /\ result.status = "success" =>
          /\ n >= 1 /\ call.plan[n] = "value" /\ call.returned = n
          /\ \A k \in 1..(n - 1) : call.plan[k] # "value"
    /\ (result.status = "error" /\ n >= 1) =>
          /\ n = args.maxRetries
          /\ \A k \in 1..n : call.plan[k] # "value"
          /\ result.error.at = "retry" /\ result.error.cause = "fn"
          /\ result.error.kind = call.plan[n]
          /\ result.error.attempt = n - 1
          /\ result.error.attempt = lastError.attempt
    /\ (pc = "done" /\ \E k \in 1..args.maxRetries : call.plan[k] = "value") =>
          result.status = "success"

C36_Witness ==
    /\ pc = "done" /\ result.status = "success"
    /\ call.returned = 2 /\ call.invoked = <<1, 2>> /\ call.plan[3] = "value"
    /\ args.maxRetries = 3

\* recipients of the transfers submitted so far, in order
submittedTo == [i \in 1..Len(call.submitted) |-> call.submitted[i].recipient]

\* the recipients whose amount is above 0.0001 SOL, platform first
dueRecipients ==
    SelectSeq(Recipients, LAMBDA r : amountOf(r) > TransferThreshold)

C38_FailureMeansNoTransfer ==
    call.reply.success = "false" =>
        \A i \in 1..Len(call.submitted) : ~call.submitted[i].landed

\* C39: in swap-asset-vault-to-holding the token transfer (step 2) is handed to
\* the ledger only after the swap (step 1) returned success; when step 1 failed
\* the run ends with a failure response and no transfer submitted; when
\* transferAllTokens reported a failure the response is a failure; and a
\* success response is written only after the confirmation of the swap and of
\* the transfer both resolved.
C39_StepTwoOnlyAfterStepOne ==
    script = "holding" =>
       /\ call.transfers # <<>> => result.status = "success"
       /\ result.status = "error" =>
             /\ call.transfers = <<>>
             /\ pc \in {"done", "h_exit"}
             /\ pc = "h_exit" => call.reply = "false"
       /\ (call.transferResult.returned /\ ~call.transferResult.success) =>
             pc = "h_exit" /\ call.reply = "false"
       /\ call.reply = "true" =>
             /\ result.status = "success"
             /\ sent # <<>> /\ sent[Len(sent)].confirm = "ok"
             /\ Len(call.transfers) = 1
             /\ call.transfers[1].accepted /\ call.transfers[1].confirm = "ok"
             /\ call.transferResult.success

\* a success response after a swap that needed a second attempt and a transfer
\* of the tokens it delivered
C39_Witness ==
    /\ script = "holding" /\ call.reply = "true"
    /\ Len(sent) >= 2
    /\ call.transfers[1].landed
    /\ call.transfers[1].amount = call.tokens + sent[Len(sent)].received

====
